---- MODULE Spec2Model ----
(***************************************************************************)
(* Link discovery (discover_links) and book-index discovery                *)
(* (discover_books_from_index) of src/app.py, over a nondeterministic site.*)
(*                                                                         *)
(* A URL or href string is a sequence of tokens.  Every token is a piece   *)
(* of the string; the delimiters "/", "?" and "#" are tokens of their own, *)
(* "http://" is the scheme with its "//", and a file extension such as     *)
(* ".jpg" is a token, so that the string operations of the code (prefix    *)
(* test, substring test, regular-expression search, split at a delimiter)  *)
(* are operations on the token sequence.                                   *)
(***************************************************************************)
EXTENDS Integers, Sequences, FiniteSets, TLC

(* ------------------------------ bounds -------------------------------- *)
\* anchors (<a href>) in the whole site graph of one run
MaxAnchors == 2
\* largest max_depth a run is started with
MaxDepth == 1
\* largest max_pages / max_index_pages a run is started with
MaxPages == 3
\* largest max_books a run is started with
MaxBooks == 2
\* elements of an HTML fragment or page given to a content function
MaxElements == 3
\* characters (runs of letters counting as one) of a page title
MaxTitleLen == 5
\* <img> elements of a page given to extract_cover_image
MaxImages == 2

(* --------------------------- string helpers --------------------------- *)
Delims == {"/", "?", "#"}
DigitTokens == {"1", "2"}
\* the alternatives of the asset regex of _clean_link, as they occur in hrefs
\* (the regex is compiled with re.I, so case variants are alternatives too)
AssetExtTokens == {".jpg", ".PNG", ".pdf"}

\* index of the first occurrence of token d in s, 0 when absent
RECURSIVE FindFrom(_, _, _)
FindFrom(s, d, i) ==
  IF i > Len(s) THEN 0
  ELSE IF s[i] = d THEN i
  ELSE FindFrom(s, d, i + 1)

Find(s, d) == FindFrom(s, d, 1)

\* Python's  sub in s  for the strings sub met in the code
Contains(s, sub) ==
  \E i \in 1..(Len(s) - Len(sub) + 1) : SubSeq(s, i, i + Len(sub) - 1) = sub

StartsWith(s, tok) == Len(s) > 0 /\ s[1] = tok

\* number of characters of a token sequence
RECURSIVE StrLen(_)
StrLen(s) == IF s = <<>> THEN 0 ELSE Len(Head(s)) + StrLen(Tail(s))

\* F(x) with x evaluated once, before F is applied: Python evaluates the
\* argument of a call before the call
OnValue(F(_), x) == CHOOSE r \in {F(v) : v \in {x}} : TRUE

(* ------------------------------ urllib -------------------------------- *)
\* schemes urljoin resolves relative references for
uses_relative == {"http"}

\* s up to the first token d (all of s when d is absent): s.split(d, 1)[0]
Before(s, d) ==
  LET i == Find(s, d)
  IN IF i = 0 THEN s ELSE SubSeq(s, 1, i - 1)

\* s after the first token d (empty when d is absent)
After(s, d) ==
  LET i == Find(s, d)
  IN IF i = 0 THEN <<>> ELSE SubSeq(s, i + 1, Len(s))

\* the scheme urlparse finds, or the default it is given
url_scheme(u, default) ==
  IF StartsWith(u, "http://") THEN "http"
  ELSE IF StartsWith(u, "mailto:") \/ StartsWith(u, "tel:") THEN u[1]
  ELSE default

has_netloc(u) == StartsWith(u, "http://") /\ Len(u) > 1 /\ u[2] \notin Delims

url_netloc(u) == IF has_netloc(u) THEN u[2] ELSE ""

\* what follows the scheme and the network location
url_rest(u) ==
  IF has_netloc(u) THEN SubSeq(u, 3, Len(u))
  ELSE IF StartsWith(u, "http://") \/ StartsWith(u, "mailto:") \/ StartsWith(u, "tel:")
    THEN Tail(u)
  ELSE u

\* urlparse(u, scheme=default): the rest is split at the first "#", then at the first "?"
urlparse(u, default) ==
  OnValue(LAMBDA url :
            LET rest == url_rest(url)
                nofrag == Before(rest, "#")
            IN [scheme |-> url_scheme(url, default),
                netloc |-> url_netloc(url),
                path |-> Before(nofrag, "?"),
                query |-> After(nofrag, "?"),
                fragment |-> After(rest, "#")],
          u)

\* urlunparse: a path after a network location starts with "/"; an empty
\* query or fragment is written without its delimiter
urlunparse(p) ==
  OnValue(LAMBDA c :
            (IF c.scheme = "http" THEN <<"http://">>
             ELSE IF c.scheme = "" THEN <<>> ELSE <<c.scheme>>)
            \o (IF c.netloc = "" THEN <<>> ELSE <<c.netloc>>)
            \o (IF c.netloc # "" /\ c.path # <<>> /\ Head(c.path) # "/"
                  THEN <<"/">> ELSE <<>>)
            \o c.path
            \o (IF c.query = <<>> THEN <<>> ELSE <<"?">> \o c.query)
            \o (IF c.fragment = <<>> THEN <<>> ELSE <<"#">> \o c.fragment),
          p)

\* the directory of a base path: the path up to and including its last "/"
RECURSIVE DirOf(_)
DirOf(path) ==
  IF path = <<>> THEN <<>>
  ELSE IF path[Len(path)] = "/" THEN path
  ELSE DirOf(SubSeq(path, 1, Len(path) - 1))

\* urljoin once base (b) and url (r) are parsed; references without dot segments
join_parsed(url, b, r) ==
  IF r.scheme # b.scheme \/ r.scheme \notin uses_relative THEN url
  ELSE IF r.netloc # "" THEN urlunparse(r)
  ELSE IF r.path = <<>>
    THEN urlunparse([b EXCEPT !.query = IF r.query = <<>> THEN b.query ELSE r.query,
                              !.fragment = r.fragment])
  ELSE urlunparse([r EXCEPT !.netloc = b.netloc,
                            !.path = IF Head(r.path) = "/" THEN r.path
                                     ELSE DirOf(b.path) \o r.path])

urljoin(base, url) ==
  IF base = <<>> THEN url
  ELSE IF url = <<>> THEN base
  ELSE OnValue(LAMBDA b : OnValue(LAMBDA r : join_parsed(url, b, r),
                                   urlparse(url, url_scheme(base, ""))),
               urlparse(base, ""))

\* urldefrag(url)[0]
urldefrag(url) == urlunparse([urlparse(url, "") EXCEPT !.fragment = <<>>])

\* unquote: percent-decoding, token by token
unquote_token(t) == IF t = "%62ooks" THEN "books" ELSE t

unquote(s) == [i \in 1..Len(s) |-> unquote_token(s[i])]

\* the order of the tokens as strings (ASCII), smallest first
TokenOrder ==
  <<"#", "%62ooks", ".PNG", ".jpg", ".pdf", "/", "1", "2", "?", "a.com",
    "authors", "b.com", "book", "books", "f", "http://", "lessons", "m",
    "mailto:", "p", "page", "q", "s", "tel:", "toc", "topics", "v", "x", "y">>

TokenRank(t) == Find(TokenOrder, t)

\* Python's  u < v  on strings
RECURSIVE StrLess(_, _)
StrLess(u, v) ==
  IF v = <<>> THEN FALSE
  ELSE IF u = <<>> THEN TRUE
  ELSE IF Head(u) = Head(v) THEN StrLess(Tail(u), Tail(v))
  ELSE TokenRank(Head(u)) < TokenRank(Head(v))

\* re.compile(pattern).search(s) for a pattern that is a literal word which
\* occurs in the URLs only as a whole token
re_search(pattern, s) == \E i \in 1..Len(s) : s[i] = pattern

\* s[:n]
Take(s, n) == SubSeq(s, 1, IF n < Len(s) THEN n ELSE Len(s))

Range(s) == {s[i] : i \in 1..Len(s)}

(* --------------------------- link helpers ----------------------------- *)
\* the value _clean_link returns for a discarded href
None == <<"None">>

\* the asset regex without its "\?" alternative: the extension at the end only
asset_regex_end_only(href) == href # <<>> /\ href[Len(href)] \in AssetExtTokens

\* the asset regex of _clean_link: an extension followed by "?" or the end
asset_regex_search(href) ==
  \E s \in {href} : \E i \in 1..Len(s) :
    /\ s[i] \in AssetExtTokens
    /\ (i = Len(s) \/ s[i + 1] = "?")

\* the asset filter at the end of _clean_link
drop_asset(href) ==
  OnValue(LAMBDA link : IF asset_regex_search(link) THEN None ELSE link, href)

\* _clean_link without the urldefrag step
clean_link_keep_fragment(base_url, href) ==
  IF href = <<>> THEN None
  ELSE IF StartsWith(href, "mailto:") \/ StartsWith(href, "tel:") THEN None
  ELSE drop_asset(urljoin(base_url, href))

clean_link(base_url, href) ==
  IF href = <<>> THEN None
  ELSE IF StartsWith(href, "mailto:") \/ StartsWith(href, "tel:") THEN None
  ELSE drop_asset(urldefrag(urljoin(base_url, href)))

\* _same_domain that compares nothing
same_domain_always(u1, u2) == TRUE

same_domain(u1, u2) == url_netloc(u1) = url_netloc(u2)

\* one anchor of the loop of extract_lessons_from_book_page
lesson_step(start, href, abs_link, acc) ==
  IF \/ href = <<>>
     \/ (~Contains(href, <<"/", "lessons", "/">>) /\ ~Contains(href, <<"/", "topics", "/">>))
     \/ abs_link = None
     \/ ~same_domain(start, abs_link)
     \/ abs_link \in Range(acc)
  THEN acc
  ELSE Append(acc, abs_link)

RECURSIVE lessons_loop(_, _, _)
lessons_loop(start, hrefs, acc) ==
  IF hrefs = <<>> THEN acc
  ELSE lessons_loop(start, Tail(hrefs),
                    lesson_step(start, Head(hrefs), clean_link(start, Head(hrefs)), acc))

extract_lessons_from_book_page(start, html) == lessons_loop(start, html, <<>>)

(* ------------------------------- inputs ------------------------------- *)
\* the value fetch_html raises instead of returning a page
HTTPError == << <<"HTTPError">> >>

Seed == <<"http://", "a.com", "/", "s">>

\* start_url as the caller may write it: plain, or with a fragment
StartUrls == {Seed, Seed \o <<"#", "f">>}

\* the hrefs of the anchors a page of the crawled site may carry
LinkHrefs ==
  { <<"/", "lessons", "/", "1">>,
    <<"http://", "b.com", "/", "lessons", "/", "1">>,
    <<"/", "toc">>,
    <<"toc", "#", "f">>,
    <<"/", "x", ".jpg", "?", "v">>,
    <<"mailto:", "m">>,
    <<"tel:", "1">>,
    <<"/", "s">> }

\* the regular expressions a caller passes ("" is no pattern), at most one per run
IncludePatterns == {"", "toc"}

ExcludePatterns == {"", "lessons"}

\* the pages (sequences of anchor hrefs, in document order) of at most n anchors
PagesUpTo(hrefs, n) == UNION {[1..k -> hrefs] : k \in 0..n}

VARIABLES
  fn,               \* the function the run executes
  start_url, max_depth, allow_outside, include_pattern, exclude_pattern, max_pages,
  cache,            \* the cache of fetch_html: URL -> page (the hrefs of its anchors)
  anchors,          \* number of anchors of the pages downloaded so far
  pc,               \* position of the run
  queue, visited_pages, found,
  phase,            \* the phase of discover_links that returned
  index_url, max_books, max_index_pages,
  visited_index_pages, found_books, seen_books,
  fetch_log,        \* every fetch_html call of the crawl loops so far
  anchor_log,       \* the cleaned link of every anchor of every page crawled so far
  result,           \* the returned value
  html,             \* the parsed HTML (fragment or page) a content function is given
  title,            \* the title a content or metadata function is given
  author_token,     \* derive_author_full: the author token it is given
  preload_links,    \* extract_cover_image: the preload links not yet tried
  filtered,         \* extract_cover_image: the candidates not yet tried, as sorted
  downloads,        \* every requests.get of extract_cover_image so far
  mode,             \* the mode chosen in the sidebar
  throttle_min,     \* the request delay of the sidebar
  raw_urls,         \* the chapter URLs as entered or discovered
  book_urls,        \* the books discover_books_from_index returned
  start_html_for_meta, \* the start page of a crawl run, None when there is none
  urls,             \* the chapter URLs after the filter
  loop_index,       \* the turn of the chapter loop or of the book loop
  items,            \* the chapters extracted so far
  book_title,       \* the global name book_title
  files,            \* the paths that exist below OUTPUT_DIR
  events            \* what the run did and reported so far

vars == <<fn, start_url, max_depth, allow_outside, include_pattern, exclude_pattern,
          max_pages, cache, anchors, pc, queue, visited_pages, found, phase,
          index_url, max_books, max_index_pages, visited_index_pages, found_books,
          seen_books, fetch_log, anchor_log, result, html, title, author_token,
          preload_links,
          filtered, downloads, mode, throttle_min, raw_urls, book_urls,
          start_html_for_meta, urls, loop_index, items, book_title, files, events>>

inputs == <<fn, start_url, max_depth, allow_outside, include_pattern,
            exclude_pattern, max_pages, index_url, max_books, max_index_pages>>

\* the state of extract_cover_image, and its value while another function runs
coverVars == <<preload_links, filtered, downloads>>

CoverIdle ==
  /\ preload_links = <<>>
  /\ filtered = <<>>
  /\ downloads = <<>>

\* a global name of the script that no statement has assigned yet
Unbound == <<"NameError">>

\* the state of a run of the page (a button pressed), and its value while a
\* function is checked on its own
runVars == <<mode, throttle_min, raw_urls, book_urls, start_html_for_meta, urls,
             loop_index, items, book_title, files, events>>

RunIdle ==
  /\ mode = ""
  /\ throttle_min = 0
  /\ raw_urls = <<>>
  /\ book_urls = <<>>
  /\ start_html_for_meta = <<>>
  /\ urls = <<>>
  /\ loop_index = 0
  /\ items = <<>>
  /\ book_title = Unbound
  /\ files = {}
  /\ events = <<>>

\* the variables of the functions that are not link or book discovery
otherVars == <<html, title, author_token, coverVars, runVars>>

\* their values while a discovery function runs
OtherIdle ==
  /\ html = <<>>
  /\ title = ""
  /\ author_token = <<>>
  /\ CoverIdle
  /\ RunIdle

\* the state of the BFS of discover_links
linksVars == <<visited_pages, found, phase>>

\* the state of the loop of discover_books_from_index
booksVars == <<visited_index_pages, found_books, seen_books>>

\* one fetch_html call of a crawl loop: the URL, its depth, whether a page came
\* back, and the sizes of the visited set and of the result list before it
FetchEntry(url, depth, page, nvisited, nfound) ==
  [url |-> url, depth |-> depth, ok |-> page # HTTPError,
   visited_before |-> nvisited, found_before |-> nfound]

(* ------------------------------ fetch_html ---------------------------- *)
\* fetch_html is cached by URL string (st.cache_data), and an error is not
\* cached.  The only URL a run requests twice is start_url (the direct phase,
\* then the BFS: the visited set stops every other repeat), so the cache
\* holds the page of start_url from the direct phase until the BFS reads it.

\* what fetch_html(url) may return: the cached page, else an error or any
\* page the anchor budget allows
FetchOutcomes(url, hrefs) ==
  IF url \in DOMAIN cache THEN {cache[url]}
  ELSE {HTTPError} \cup PagesUpTo(hrefs, MaxAnchors - anchors)

\* the cache with the page of url in it
Cached(url, page) ==
  IF page = HTTPError THEN cache
  ELSE [u \in DOMAIN cache \cup {url} |-> IF u = url THEN page ELSE cache[u]]

\* the cache without url, which is visited and not requested again
Forget(url) == [u \in DOMAIN cache \ {url} |-> cache[u]]

AnchorsAfter(url, page) ==
  IF page = HTTPError \/ url \in DOMAIN cache THEN anchors
  ELSE anchors + Len(page)

(* --------------------------- discover_links --------------------------- *)
\* the cap on the neighbours one page adds to the queue
MaxNeighbors == 50

include_ok(link) == include_pattern = "" \/ re_search(include_pattern, link)

exclude_ok(link) == exclude_pattern = "" \/ ~re_search(exclude_pattern, link)

\* the filters the direct phase applies to the extracted lessons
filter_lessons(lessons) ==
  LET included == SelectSeq(lessons, LAMBDA u : include_ok(u))
      kept == SelectSeq(included, LAMBDA u : exclude_ok(u))
  IN IF allow_outside THEN kept
     ELSE SelectSeq(kept, LAMBDA u : same_domain(start_url, u))

\* the tests both loops of the BFS make on a cleaned link
admissible(link) ==
  /\ link # None
  /\ (allow_outside \/ same_domain(start_url, link))
  /\ include_ok(link)
  /\ exclude_ok(link)

\* _clean_link(url, a.get("href")) of every anchor a of the page, in document order
cleaned_links(url, page) == [i \in 1..Len(page) |-> clean_link(url, page[i])]

\* one anchor of "collect links on this page"
collect_step(link, acc) ==
  OnValue(LAMBDA a : IF admissible(link) /\ link \notin Range(a) THEN Append(a, link) ELSE a,
          acc)

\* the first loop over the anchors; links are their cleaned links, in order
RECURSIVE collect_links(_, _)
collect_links(links, acc) ==
  IF links = <<>> THEN acc
  ELSE collect_links(Tail(links), collect_step(Head(links), acc))

\* one anchor of "enqueue neighbors": whether the link is appended to the queue
is_neighbor(link, visited) == admissible(link) /\ link \notin visited

\* a neighbour enqueued two levels down
enqueue_step_two_levels(link, depth, visited, q) ==
  IF is_neighbor(link, visited) THEN Append(q, <<link, depth + 2>>) ELSE q

enqueue_step(link, depth, visited, q) ==
  IF is_neighbor(link, visited) THEN Append(q, <<link, depth + 1>>) ELSE q

\* the second loop over the anchors, left after MaxNeighbors additions (q0 is
\* the queue before the loop)
RECURSIVE enqueue_neighbors(_, _, _, _, _)
enqueue_neighbors(links, depth, visited, q, q0) ==
  IF links = <<>> \/ Len(q) - q0 >= MaxNeighbors THEN q
  ELSE enqueue_neighbors(Tail(links), depth, visited,
                         enqueue_step(Head(links), depth, visited, q), q0)

\* "remove the start page itself if present"
remove_start(links) == SelectSeq(links, LAMBDA u : u # start_url)

\* the sort key (len(urlparse(u).path), u) compared with <=
path_len(u) == StrLen(urlparse(u, "").path)

\* the key without the path length
sort_key_le_url_only(u, v) == ~StrLess(v, u)

sort_key_le(u, v) ==
  \E a \in {u}, b \in {v}, len_a \in {path_len(u)}, len_b \in {path_len(v)} :
    \/ len_a < len_b
    \/ (len_a = len_b /\ ~StrLess(b, a))

\* list.sort: stable, by insertion
RECURSIVE insert_sorted(_, _)
insert_sorted(x, sorted) ==
  OnValue(LAMBDA s :
            IF s = <<>> THEN <<x>>
            ELSE IF sort_key_le(Head(s), x)
              THEN <<Head(s)>> \o insert_sorted(x, Tail(s))
            ELSE <<x>> \o s,
          sorted)

RECURSIVE sort_links(_)
sort_links(links) ==
  OnValue(LAMBDA s :
            IF s = <<>> THEN <<>>
            ELSE insert_sorted(s[Len(s)], sort_links(SubSeq(s, 1, Len(s) - 1))),
          links)

\* the variables of discover_books_from_index while discover_links runs
BooksIdle ==
  /\ index_url = <<>>
  /\ max_books = 0
  /\ max_index_pages = 0
  /\ visited_index_pages = {}
  /\ found_books = <<>>
  /\ seen_books = {}

\* "if lessons:" taken after the filters instead of before them
direct_returns_after_filter(lessons) == filter_lessons(lessons) # <<>>

\* "if lessons:": the direct phase returns when the extraction found a link
direct_returns(lessons) == lessons # <<>>

LinksInit ==
  /\ fn = "discover_links"
  /\ start_url \in StartUrls
  /\ max_depth \in 0..MaxDepth
  /\ allow_outside \in BOOLEAN
  /\ include_pattern \in IncludePatterns
  /\ exclude_pattern \in ExcludePatterns
  /\ (include_pattern = "" \/ exclude_pattern = "")
  /\ max_pages \in 1..MaxPages
  /\ cache = [u \in {} |-> <<>>]
  /\ anchors = 0
  /\ pc = "direct"
  /\ queue = <<>>
  /\ visited_pages = {}
  /\ found = <<>>
  /\ phase = "none"
  /\ BooksIdle
  /\ OtherIdle
  /\ fetch_log = <<>>
  /\ anchor_log = <<>>
  /\ result = <<>>

\* 1) fetch the start page and extract its lesson links; return them when
\*    there are any, else (or when anything raises) set up the BFS
DirectPhase ==
  /\ fn = "discover_links"
  /\ pc = "direct"
  /\ \E page \in FetchOutcomes(start_url, LinkHrefs) :
       LET lessons == IF page = HTTPError THEN <<>>
                      ELSE extract_lessons_from_book_page(start_url, page)
       IN /\ cache' = Cached(start_url, page)
          /\ anchors' = AnchorsAfter(start_url, page)
          /\ IF direct_returns(lessons)
               THEN /\ result' = Take(filter_lessons(lessons), max_pages)
                    /\ phase' = "direct"
                    /\ pc' = "done"
                    /\ UNCHANGED queue
               ELSE /\ queue' = << <<start_url, 0>> >>
                    /\ pc' = "bfs"
                    /\ UNCHANGED <<result, phase>>
  /\ UNCHANGED <<inputs, otherVars, visited_pages, found, booksVars, fetch_log, anchor_log>>

\* the loop condition without the page limit
BfsGuard_no_page_limit == queue # <<>>

\* while queue and len(visited_pages) < max_pages
BfsGuard == queue # <<>> /\ Cardinality(visited_pages) < max_pages

\* a dequeued URL that was visited before goes back to the end of the queue
BfsSkipVisited_requeue ==
  /\ fn = "discover_links"
  /\ pc = "bfs"
  /\ BfsGuard
  /\ Head(queue)[1] \in visited_pages
  /\ queue' = Append(Tail(queue), Head(queue))
  /\ UNCHANGED <<inputs, otherVars, cache, anchors, pc, linksVars, booksVars, fetch_log,
                 anchor_log, result>>

\* a dequeued URL that was visited before is dropped
BfsSkipVisited ==
  /\ fn = "discover_links"
  /\ pc = "bfs"
  /\ BfsGuard
  /\ Head(queue)[1] \in visited_pages
  /\ queue' = Tail(queue)
  /\ UNCHANGED <<inputs, otherVars, cache, anchors, pc, linksVars, booksVars, fetch_log,
                 anchor_log, result>>

\* one iteration of the BFS loop on a URL not visited before
BfsVisit ==
  /\ fn = "discover_links"
  /\ pc = "bfs"
  /\ BfsGuard
  /\ LET url == Head(queue)[1]
         depth == Head(queue)[2]
         visited == visited_pages \cup {url}
     IN /\ url \notin visited_pages
        /\ visited_pages' = visited
        /\ \E page \in FetchOutcomes(url, LinkHrefs) :
             /\ cache' = Forget(url)
             /\ anchors' = AnchorsAfter(url, page)
             /\ fetch_log' = Append(fetch_log,
                  FetchEntry(url, depth, page, Cardinality(visited_pages), Len(found)))
             /\ IF page = HTTPError
                  THEN /\ queue' = Tail(queue)
                       /\ UNCHANGED <<found, anchor_log>>
                  ELSE /\ anchor_log' = anchor_log \o cleaned_links(url, page)
                       /\ found' = collect_links(SubSeq(anchor_log', Len(anchor_log) + 1,
                                                         Len(anchor_log')), found)
                       /\ queue' = IF depth < max_depth
                                     THEN enqueue_neighbors(
                                            SubSeq(anchor_log', Len(anchor_log) + 1,
                                                   Len(anchor_log')),
                                            depth, visited, Tail(queue), Len(queue) - 1)
                                     ELSE Tail(queue)
  /\ UNCHANGED <<inputs, otherVars, pc, phase, booksVars, result>>

\* the loop has ended: drop the start URL, sort, cap
BfsReturn ==
  /\ fn = "discover_links"
  /\ pc = "bfs"
  /\ ~BfsGuard
  /\ result' = Take(sort_links(remove_start(found)), max_pages)
  /\ phase' = "bfs"
  /\ pc' = "done"
  /\ UNCHANGED <<inputs, otherVars, cache, anchors, queue, visited_pages, found, booksVars,
                 fetch_log, anchor_log>>

(* ---------------------- discover_books_from_index --------------------- *)
\* the tail of an index path after its prefix: "", "page/N" or "page/N/"
is_pagination_tail(t) ==
  \/ t = <<>>
  \/ /\ Len(t) \in {3, 4}
     /\ t[1] = "page" /\ t[2] = "/" /\ t[3] \in DigitTokens
     /\ (Len(t) = 4 => t[4] = "/")

\* ^/books/(?:page/\d+/?)?$
is_books_index_path(path_dec) ==
  /\ Len(path_dec) >= 3
  /\ SubSeq(path_dec, 1, 3) = <<"/", "books", "/">>
  /\ is_pagination_tail(SubSeq(path_dec, 4, Len(path_dec)))

\* ^/authors/(?:page/\d+/?)?$
is_authors_index_path(path_dec) ==
  /\ Len(path_dec) >= 3
  /\ SubSeq(path_dec, 1, 3) = <<"/", "authors", "/">>
  /\ is_pagination_tail(SubSeq(path_dec, 4, Len(path_dec)))

is_index_path(path_dec) ==
  is_books_index_path(path_dec) \/ is_authors_index_path(path_dec)

\* ^/authors/[^/]+/(?:page/\d+/?)?$
is_author_detail_index_path(path_dec) ==
  /\ Len(path_dec) >= 5
  /\ SubSeq(path_dec, 1, 3) = <<"/", "authors", "/">>
  /\ path_dec[4] # "/"
  /\ Find(SubSeq(path_dec, 4, Len(path_dec)), "/") > 0
  /\ is_pagination_tail(After(SubSeq(path_dec, 4, Len(path_dec)), "/"))

\* "/books/" in path, or a match of /book(?:s)?/
looks_like_book_page_path(path_dec) ==
  \/ Contains(path_dec, <<"/", "books", "/">>)
  \/ Contains(path_dec, <<"/", "book", "/">>)

\* unquote(urlparse(link).path or "")
decoded_path(link) == unquote(urlparse(link, "").path)

\* the test of the first loop without "skip index pages themselves"
is_book_link_keep_index(link) ==
  /\ link # None
  /\ same_domain(index_url, link)
  /\ looks_like_book_page_path(decoded_path(link))

\* whether the first loop takes a cleaned link for a book page
is_book_link(link) ==
  /\ link # None
  /\ same_domain(index_url, link)
  /\ looks_like_book_page_path(decoded_path(link))
  /\ ~is_books_index_path(decoded_path(link))

\* one anchor of "collect book links on this index page"
book_step(link, books) ==
  IF is_book_link(link) /\ link \notin Range(books) THEN Append(books, link) ELSE books

\* the first loop over the anchors, left as soon as max_books books are found
\* (the loop is entered with fewer, so the test after an append is the test here)
RECURSIVE collect_books(_, _)
collect_books(links, books) ==
  IF links = <<>> THEN books
  ELSE IF Len(books) >= max_books THEN books
  ELSE collect_books(Tail(links), book_step(Head(links), books))

\* the neighbours a link may be followed to
allow_neighbor(path_dec) ==
  IF is_author_detail_index_path(decoded_path(index_url))
    THEN is_author_detail_index_path(path_dec)
    ELSE is_index_path(path_dec) \/ is_author_detail_index_path(path_dec)

\* one anchor of "discover pagination/index neighbors"
index_step(link, visited, q) ==
  IF /\ link # None
     /\ same_domain(index_url, link)
     /\ allow_neighbor(decoded_path(link))
     /\ link \notin visited
  THEN Append(q, link)
  ELSE q

\* the second loop over the anchors
RECURSIVE enqueue_index_pages(_, _, _)
enqueue_index_pages(links, visited, q) ==
  IF links = <<>> THEN q
  ELSE enqueue_index_pages(Tail(links), visited, index_step(Head(links), visited, q))

BooksIndexUrl == <<"http://", "a.com", "/", "books", "/">>

AuthorPageUrl == <<"http://", "a.com", "/", "authors", "/", "x", "/">>

IndexUrls == {BooksIndexUrl, AuthorPageUrl}

\* the hrefs of the anchors an index page may carry
BookHrefs ==
  { <<"/", "books", "/", "p">>,
    <<"/", "books", "/", "p", "#", "f">>,
    <<"/", "books", "/", "p", ".pdf">>,
    <<"/", "book", "/", "q">>,
    <<"/", "%62ooks", "/">>,
    <<"/", "books", "/", "page", "/", "2", "/">>,
    <<"/", "authors", "/">>,
    <<"/", "authors", "/", "x", "/", "page", "/", "2">>,
    <<"/", "authors", "/", "y", "/">>,
    <<"http://", "b.com", "/", "books", "/", "q">> }

\* the variables of discover_links while discover_books_from_index runs
LinksIdle ==
  /\ start_url = <<>>
  /\ max_depth = 0
  /\ allow_outside = FALSE
  /\ include_pattern = ""
  /\ exclude_pattern = ""
  /\ max_pages = 0
  /\ visited_pages = {}
  /\ found = <<>>
  /\ phase = "none"

BooksInit ==
  /\ fn = "discover_books_from_index"
  /\ index_url \in IndexUrls
  /\ max_books \in 1..MaxBooks
  /\ max_index_pages \in 1..MaxPages
  /\ LinksIdle
  /\ OtherIdle
  /\ cache = [u \in {} |-> <<>>]
  /\ anchors = 0
  /\ pc = "index"
  /\ queue = <<index_url>>
  /\ visited_index_pages = {}
  /\ found_books = <<>>
  /\ seen_books = {}
  /\ fetch_log = <<>>
  /\ anchor_log = <<>>
  /\ result = <<>>

\* the loop condition without the index-page limit
BooksGuard_no_page_limit == queue # <<>> /\ Len(found_books) < max_books

\* while queue and len(visited_index_pages) < max_index_pages and len(found_books) < max_books
BooksGuard ==
  /\ queue # <<>>
  /\ Cardinality(visited_index_pages) < max_index_pages
  /\ Len(found_books) < max_books

\* a dequeued page that was visited before is dropped
BooksSkipVisited ==
  /\ fn = "discover_books_from_index"
  /\ pc = "index"
  /\ BooksGuard
  /\ Head(queue) \in visited_index_pages
  /\ queue' = Tail(queue)
  /\ UNCHANGED <<inputs, otherVars, cache, anchors, pc, linksVars, booksVars, fetch_log,
                 anchor_log, result>>

\* one iteration of the loop on an index page not visited before
BooksVisit ==
  /\ fn = "discover_books_from_index"
  /\ pc = "index"
  /\ BooksGuard
  /\ LET page_url == Head(queue)
         visited == visited_index_pages \cup {page_url}
     IN /\ page_url \notin visited_index_pages
        /\ visited_index_pages' = visited
        /\ \E page \in FetchOutcomes(page_url, BookHrefs) :
             /\ anchors' = AnchorsAfter(page_url, page)
             /\ fetch_log' = Append(fetch_log,
                  FetchEntry(page_url, 0, page, Cardinality(visited_index_pages),
                             Len(found_books)))
             /\ IF page = HTTPError
                  THEN /\ queue' = Tail(queue)
                       /\ UNCHANGED <<found_books, seen_books, anchor_log>>
                  ELSE /\ anchor_log' = anchor_log \o cleaned_links(page_url, page)
                       /\ found_books' = collect_books(
                            SubSeq(anchor_log', Len(anchor_log) + 1, Len(anchor_log')),
                            found_books)
                       /\ seen_books' = Range(found_books')
                       /\ queue' = IF Cardinality(visited) < max_index_pages
                                     THEN enqueue_index_pages(
                                            SubSeq(anchor_log', Len(anchor_log) + 1,
                                                   Len(anchor_log')),
                                            visited, Tail(queue))
                                     ELSE Tail(queue)
  /\ UNCHANGED <<inputs, otherVars, cache, pc, linksVars, result>>

\* the loop has ended: return found_books[:max_books]
BooksReturn ==
  /\ fn = "discover_books_from_index"
  /\ pc = "index"
  /\ ~BooksGuard
  /\ result' = Take(found_books, max_books)
  /\ pc' = "done"
  /\ UNCHANGED <<inputs, otherVars, cache, anchors, queue, linksVars, booksVars, fetch_log,
                 anchor_log>>

(* --------------------------- specification ---------------------------- *)
Init == LinksInit \/ BooksInit

Next ==
  \/ DirectPhase
  \/ BfsSkipVisited
  \/ BfsVisit
  \/ BfsReturn
  \/ BooksSkipVisited
  \/ BooksVisit
  \/ BooksReturn

Spec == Init /\ [][Next]_vars


(* ------------------------------- claims ------------------------------- *)
Links == fn = "discover_links"

Books == fn = "discover_books_from_index"

\* the seed of the run
SeedUrl == IF Links THEN start_url ELSE index_url

\* URL normalization: resolved to absolute against the seed, fragment stripped
normalize_url(u) == urldefrag(urljoin(SeedUrl, u))

\* the URLs of the queue, the seed apart (it is put there as given)
QueuedLinks ==
  (IF Links THEN {queue[i][1] : i \in 1..Len(queue)} ELSE Range(queue)) \ {SeedUrl}

\* every link the run holds: collected, queued or returned
HeldLinks == Range(found) \cup Range(found_books) \cup Range(result) \cup QueuedLinks

\* the anchors of the crawled pages that _clean_link kept
KeptAnchors == Range(anchor_log) \ {None}

\* C1: the list discover_links (direct or BFS) or discover_books_from_index
\* returns holds no two URLs that are equal after URL normalization.
C1_NoDuplicateLinks ==
  pc = "done" =>
    \A i, j \in 1..Len(result) :
      i # j => normalize_url(result[i]) # normalize_url(result[j])

\* a crawl met the same link on two anchors and returned it
C1_Witness ==
  /\ pc = "done"
  /\ \E i, j \in 1..Len(anchor_log) :
       i # j /\ anchor_log[i] = anchor_log[j] /\ anchor_log[i] \in Range(result)

\* C2: with allow_outside = false every URL discover_links collects or
\* returns, in either phase, has the network location of the seed.
C2_SameDomainOnly ==
  (Links /\ ~allow_outside) =>
    \A u \in Range(found) \cup Range(result) : url_netloc(u) = url_netloc(start_url)

\* the BFS met a link to another host, dropped it, and returned others
C2_Witness ==
  /\ Links /\ ~allow_outside /\ pc = "done" /\ phase = "bfs"
  /\ result # <<>>
  /\ \E u \in KeptAnchors : url_netloc(u) # url_netloc(start_url)

\* C3: in the BFS of discover_links the number of visited pages never
\* exceeds max_pages.
C3_VisitedAtMostMaxPages == Links => Cardinality(visited_pages) <= max_pages

\* the limit is reached while pages are still queued, one fetch having failed
C3_Witness ==
  /\ Links /\ pc = "bfs"
  /\ Cardinality(visited_pages) = max_pages
  /\ queue # <<>>
  /\ \E i \in 1..Len(fetch_log) : ~fetch_log[i].ok

\* the path of u ends in a non-document extension (a query may follow it)
is_asset_url(u) ==
  LET path == urlparse(u, "").path
  IN path # <<>> /\ path[Len(path)] \in AssetExtTokens

is_mail_or_tel(u) == StartsWith(u, "mailto:") \/ StartsWith(u, "tel:")

StartPage == cache[start_url]

\* the state in which the direct phase has just run on a downloaded start page
AfterDirectPhase ==
  Links /\ pc # "direct" /\ fetch_log = <<>> /\ start_url \in DOMAIN cache

\* what the direct phase yields after domain filtering, de-duplication,
\* regex filtering and truncation
DirectYield ==
  Take(filter_lessons(extract_lessons_from_book_page(start_url, StartPage)), max_pages)

\* C5 as stated: the BFS fallback runs exactly when the direct phase, after
\* all its filters, yields no link.
C5_BfsIffDirectYieldsNothing ==
  AfterDirectPhase =>
    /\ (DirectYield # <<>> => pc = "done" /\ phase = "direct" /\ result = DirectYield)
    /\ (DirectYield = <<>> => pc = "bfs")

\* C5 amended: the BFS fallback runs exactly when the start page cannot be
\* fetched or extract_lessons_from_book_page finds no link on it; when it finds
\* one, the filtered and truncated list is returned, empty or not, and no
\* BFS is run.
C5_BfsIffNoLessonExtracted ==
  /\ AfterDirectPhase =>
       IF extract_lessons_from_book_page(start_url, StartPage) # <<>>
         THEN pc = "done" /\ phase = "direct" /\ result = DirectYield
         ELSE pc = "bfs" /\ queue = << <<start_url, 0>> >>
  /\ (Links /\ pc # "direct" /\ fetch_log = <<>> /\ start_url \notin DOMAIN cache)
       => pc = "bfs"
  /\ (Links /\ phase = "direct") => fetch_log = <<>> /\ visited_pages = {}

\* the start page has lesson links, the filters drop them all, and the
\* empty list is returned
C5_Witness ==
  /\ AfterDirectPhase
  /\ extract_lessons_from_book_page(start_url, StartPage) # <<>>
  /\ DirectYield = <<>>
  /\ pc = "done" /\ result = <<>>

\* href is taken for a lesson/topic link by the direct phase
is_lesson_href(href) ==
  Contains(href, <<"/", "lessons", "/">>) \/ Contains(href, <<"/", "topics", "/">>)

\* C6 as stated: with allow_outside = true the direct phase keeps a lesson
\* link to another host (it passes the regex filters and the list is not cut).
C6_OutsideLessonKept ==
  (AfterDirectPhase /\ phase = "direct" /\ allow_outside /\ Len(result) < max_pages) =>
    \A k \in 1..Len(StartPage) :
      ( /\ is_lesson_href(StartPage[k])
        /\ clean_link(start_url, StartPage[k]) # None
        /\ include_ok(clean_link(start_url, StartPage[k]))
        /\ exclude_ok(clean_link(start_url, StartPage[k])) )
      => clean_link(start_url, StartPage[k]) \in Range(result)

\* C7 as stated: the list the BFS returns never holds the seed, compared
\* after URL normalization.
C7_SeedNotReturned ==
  (Links /\ pc = "done" /\ phase = "bfs") =>
    \A u \in Range(result) : normalize_url(u) # normalize_url(start_url)


\* C8: in discover_books_from_index the visited index pages never exceed
\* max_index_pages and the collected books never exceed max_books; no page
\* is fetched once either count has reached its limit; the returned list has
\* at most max_books elements.
C8_IndexCrawlBounded ==
  Books =>
    /\ Cardinality(visited_index_pages) <= max_index_pages
    /\ Len(found_books) <= max_books
    /\ Len(result) <= max_books
    /\ \A i \in 1..Len(fetch_log) :
         /\ fetch_log[i].visited_before < max_index_pages
         /\ fetch_log[i].found_before < max_books

\* the loop has ended on a limit while index pages are still queued
C8_Witness ==
  /\ Books /\ pc = "done"
  /\ queue # <<>>
  /\ \/ Cardinality(visited_index_pages) = max_index_pages
     \/ Len(found_books) = max_books
  /\ Len(fetch_log) >= 2

\* the slug of an author-detail path /authors/<slug>/...
author_slug(path_dec) == Before(SubSeq(path_dec, 4, Len(path_dec)), "/")

\* u is a page (paginated or not) of the author of the seed, on the seed's host
is_page_of_seed_author(u) ==
  /\ url_netloc(u) = url_netloc(index_url)
  /\ is_author_detail_index_path(decoded_path(u))
  /\ author_slug(decoded_path(u)) = author_slug(decoded_path(index_url))

\* C9 as stated: from an author-detail seed, every page fetched other than
\* the seed is a pagination page of that same author.
C9_OnlySeedAuthorFollowed ==
  (Books /\ is_author_detail_index_path(decoded_path(index_url))) =>
    \A i \in 1..Len(fetch_log) :
      fetch_log[i].url # index_url => is_page_of_seed_author(fetch_log[i].url)

\* index of the first occurrence of a link among the anchors crawled so far
FirstSeen(link) == Find(anchor_log, link)

\* C10: every URL discover_books_from_index collects or returns is on the
\* host of the index URL, has a path that looks like a book page and is no
\* books or authors index page; the URLs are in order of first discovery.
C10_BookLinksInDiscoveryOrder ==
  Books =>
    /\ \A u \in Range(found_books) \cup Range(result) :
         /\ url_netloc(u) = url_netloc(index_url)
         /\ looks_like_book_page_path(decoded_path(u))
         /\ ~is_books_index_path(decoded_path(u))
         /\ ~is_authors_index_path(decoded_path(u))
    /\ \A i, j \in 1..Len(found_books) :
         i < j => /\ FirstSeen(found_books[i]) > 0
                  /\ FirstSeen(found_books[i]) < FirstSeen(found_books[j])
    /\ pc = "done" => result = found_books

\* two books found on crawled index pages are returned, the first met first
C10_Witness ==
  /\ Books /\ pc = "done"
  /\ Len(result) >= 2
  /\ FirstSeen(result[1]) < FirstSeen(result[2])


(***************************************************************************)
(* Content functions: sanitize_article_html, strip_redundant_headings and  *)
(* extract_content.                                                        *)
(*                                                                         *)
(* A parsed document is the sequence of its elements in document order.    *)
(* An element is a record: its tag, its class attribute, its href, its own *)
(* text (the text node that precedes its child elements, a sequence of     *)
(* word or sentence tokens; <<>> when it has none) and its depth below     *)
(* <body> (1 for a child of <body>).  The parent of an element is the      *)
(* nearest element before it that is one level up; index 0 is <body>.      *)
(* decompose() and extract() add the element and its descendants to the    *)
(* set of removed indices.                                                 *)
(***************************************************************************)

(* ------------------------------- texts -------------------------------- *)
NextText == "next"
BookmarkText == "Bookmark"
NavSentence == "The story goes on in the next part, which is out in May."
LongSentence ==
  "Once upon a time a fisherman and his wife had a small hut close to the sea, far from all towns."
MidSentence == "She went home and told him all of it."
CommentPrompt == "Leave a comment"

\* the texts nav_text_re.search finds a match in
NavTexts == {NextText, BookmarkText, NavSentence}
\* the texts bad_text_re.search finds a match in
BadTexts == {CommentPrompt}
\* the texts bookmark_exact.match accepts
BookmarkTexts == {BookmarkText}
\* the class attributes the regex "patterns" finds a match in
NoiseClasses == {"comments"}
\* the class attributes re.search(r"bookmark", ...) finds a match in
BookmarkClasses == {"bookmark-btn"}

(* ---------------------------- parsed trees ---------------------------- *)
Element(tag, cls, href, text, depth) ==
  [tag |-> tag, cls |-> cls, href |-> href, text |-> text, depth |-> depth]

Indices(doc) == [i \in 1..Len(doc) |-> i]

\* el.parent (0 is <body>)
Parent(doc, i) ==
  IF doc[i].depth = 1 THEN 0
  ELSE CHOOSE j \in 1..(i - 1) :
         /\ doc[j].depth = doc[i].depth - 1
         /\ \A k \in (j + 1)..(i - 1) : doc[k].depth >= doc[i].depth

\* the element j and its descendants
Subtree(doc, j) ==
  IF j = 0 THEN 0..Len(doc)
  ELSE {i \in j..Len(doc) : \A k \in (j + 1)..i : doc[k].depth > doc[j].depth}

\* el.decompose(), el.extract()
decompose(doc, gone, j) == gone \cup Subtree(doc, j)

\* soup.find_all(tags): the elements still in the tree, in document order
find_all(doc, gone, tags) ==
  SelectSeq(Indices(doc), LAMBDA i : i \notin gone /\ doc[i].tag \in tags)

\* soup.find_all(True)
find_all_true(doc, gone) == SelectSeq(Indices(doc), LAMBDA i : i \notin gone)

\* the text nodes below element j that are still in the tree, in document order
text_nodes(doc, gone, j) ==
  SelectSeq(Indices(doc),
            LAMBDA i : i \in Subtree(doc, j) /\ i \notin gone /\ doc[i].text # <<>>)

\* len() of one text node: its tokens and the single spaces between them
node_len(text) == IF text = <<>> THEN 0 ELSE StrLen(text) + Len(text) - 1

RECURSIVE nodes_len(_, _)
nodes_len(doc, ns) ==
  IF ns = <<>> THEN 0 ELSE node_len(doc[Head(ns)].text) + nodes_len(doc, Tail(ns))

\* len(el.get_text(sep, strip=True)) for a separator of seplen characters
text_len(doc, ns, seplen) ==
  IF ns = <<>> THEN 0 ELSE nodes_len(doc, ns) + seplen * (Len(ns) - 1)

\* el.get_text(" ", strip=True) as the token sequence of the joined string
RECURSIVE joined(_, _)
joined(doc, ns) ==
  IF ns = <<>> THEN <<>> ELSE doc[Head(ns)].text \o joined(doc, Tail(ns))

\* a loop "for x in xs: step" over the tree: the removed set after it
ForEach(step(_, _, _), doc, gone, xs) ==
  LET after[k \in 0..Len(xs)] ==
        IF k = 0 THEN gone ELSE step(doc, after[k - 1], xs[k])
  IN  after[Len(xs)]

(* ------------------------ sanitize_article_html ----------------------- *)
NonContentTags ==
  {"script", "style", "noscript", "form", "iframe", "header", "footer", "nav", "aside"}
\* the hrefs that contain "#respond", "#comments" or "?replytocom="
CommentHrefs == {"#respond"}

\* regex.search on the text of the text nodes ns: a match in one of them
nav_text_re(doc, ns) ==
  \E k \in 1..Len(ns) : \E t \in Range(doc[ns[k]].text) : t \in NavTexts

\* "for tag in soup.find_all([...]): tag.decompose()"
remove_tag(doc, gone, i) == decompose(doc, gone, i)

\* "if patterns.search(attrs): el.decompose()" (an element removed earlier in
\* the loop has lost its attributes)
remove_by_pattern(doc, gone, i) ==
  IF i \notin gone /\ doc[i].cls \in NoiseClasses THEN decompose(doc, gone, i) ELSE gone

\* soup.find_all(string=bad_text_re): the parents of the matching text nodes
comment_prompt_parents(doc, gone) ==
  SelectSeq(Indices(doc),
            LAMBDA i : i \notin gone /\ \E t \in Range(doc[i].text) : t \in BadTexts)

\* "if any(x in href ...): a.decompose()"
remove_comment_anchor(doc, gone, i) ==
  IF doc[i].href \in CommentHrefs THEN decompose(doc, gone, i) ELSE gone

\* the parent is dropped when its text is at most 20 characters longer
nav_anchor_target(doc, gone, i, txt_len) ==
  IF text_len(doc, text_nodes(doc, gone, Parent(doc, i)), 1) <= txt_len + 20
  THEN Parent(doc, i) ELSE i

\* one anchor of "Remove anchors with only nav text"
remove_nav_anchor(doc, gone, i) ==
  IF /\ text_nodes(doc, gone, i) # <<>>
     /\ nav_text_re(doc, text_nodes(doc, gone, i))
  THEN decompose(doc, gone,
                 nav_anchor_target(doc, gone, i, text_len(doc, text_nodes(doc, gone, i), 1)))
  ELSE gone

\* "if t and len(t) <= 60 and nav_text_re.search(t): el.decompose()"
remove_small_block(doc, gone, i) ==
  IF /\ text_nodes(doc, gone, i) # <<>>
     /\ text_len(doc, text_nodes(doc, gone, i), 1) <= 60
     /\ nav_text_re(doc, text_nodes(doc, gone, i))
  THEN decompose(doc, gone, i) ELSE gone

\* "for tag_name in [...]: for el in list(soup.find_all(tag_name)): ..."
RECURSIVE remove_small_blocks(_, _, _)
remove_small_blocks(doc, gone, tags) ==
  IF tags = <<>> THEN gone
  ELSE remove_small_blocks(
         doc, ForEach(remove_small_block, doc, gone, find_all(doc, gone, {Head(tags)})),
         Tail(tags))

\* bookmark_exact.match(txt)
bookmark_exact(txt) == Len(txt) = 1 /\ txt[1] \in BookmarkTexts

\* len(parent_text.replace(txt, "").strip()) == 0: the parent's text is made
\* of copies of txt (replacing "" changes nothing)
only_copies(ptxt, txt) ==
  IF txt = <<>> THEN ptxt = <<>>
  ELSE /\ Len(ptxt) % Len(txt) = 0
       /\ \A k \in 1..Len(ptxt) : ptxt[k] = txt[((k - 1) % Len(txt)) + 1]

bookmark_target(doc, gone, i, txt) ==
  IF only_copies(joined(doc, text_nodes(doc, gone, Parent(doc, i))), txt)
  THEN Parent(doc, i) ELSE i

\* one element of 'Explicitly remove lone "Bookmark" buttons/links'
remove_bookmark(doc, gone, i) ==
  IF /\ i \notin gone
     /\ \/ bookmark_exact(joined(doc, text_nodes(doc, gone, i)))
        \/ doc[i].cls \in BookmarkClasses
  THEN decompose(doc, gone,
                 bookmark_target(doc, gone, i, joined(doc, text_nodes(doc, gone, i))))
  ELSE gone

RECURSIVE remove_bookmarks(_, _, _)
remove_bookmarks(doc, gone, tags) ==
  IF tags = <<>> THEN gone
  ELSE remove_bookmarks(
         doc, ForEach(remove_bookmark, doc, gone, find_all(doc, gone, {Head(tags)})),
         Tail(tags))

\* list(container.children) of <body>; without a <body> the container is the
\* soup, whose only child is the empty <html>
children(doc, gone) ==
  IF 0 \in gone THEN <<>>
  ELSE SelectSeq(Indices(doc), LAMBDA i : i \notin gone /\ doc[i].depth = 1)

is_trailing_nav(doc, gone, i) ==
  /\ text_nodes(doc, gone, i) # <<>>
  /\ text_len(doc, text_nodes(doc, gone, i), 1) <= 80
  /\ nav_text_re(doc, text_nodes(doc, gone, i))

\* the while loop of _strip_trailing_nav over the children kids, from the last
RECURSIVE strip_trailing_nav(_, _, _)
strip_trailing_nav(doc, gone, kids) ==
  IF kids = <<>> THEN gone
  ELSE IF is_trailing_nav(doc, gone, kids[Len(kids)])
       THEN strip_trailing_nav(doc, decompose(doc, gone, kids[Len(kids)]),
                               SubSeq(kids, 1, Len(kids) - 1))
       ELSE gone

\* "for _ in range(3): if not _strip_trailing_nav(target): break"
RECURSIVE strip_trailing_passes(_, _, _)
strip_trailing_passes(doc, gone, n) ==
  IF n = 0 \/ strip_trailing_nav(doc, gone, children(doc, gone)) = gone THEN gone
  ELSE strip_trailing_passes(doc, strip_trailing_nav(doc, gone, children(doc, gone)),
                             n - 1)

\* str(soup) of a soup whose <body> was decomposed: "<html></html>"
EmptyHtml == <<Element("html", "", "", <<>>, 1)>>

\* "".join(str(c) for c in body.contents), or str(soup) without a <body>
serialize(doc, gone) ==
  IF 0 \in gone THEN EmptyHtml
  ELSE [k \in 1..Len(find_all_true(doc, gone)) |-> doc[find_all_true(doc, gone)[k]]]

\* the passes of sanitize_article_html, each from the removed set of the last
drop_tags(doc) ==
  ForEach(remove_tag, doc, {}, find_all(doc, {}, NonContentTags))

drop_patterns(doc, gone) ==
  ForEach(remove_by_pattern, doc, gone, find_all_true(doc, gone))

drop_comment_prompts(doc, gone) ==
  ForEach(remove_tag, doc, gone, comment_prompt_parents(doc, gone))

drop_comment_anchors(doc, gone) ==
  ForEach(remove_comment_anchor, doc, gone,
          SelectSeq(find_all(doc, gone, {"a"}), LAMBDA i : doc[i].href # ""))

drop_nav_anchors(doc, gone) ==
  ForEach(remove_nav_anchor, doc, gone, find_all(doc, gone, {"a"}))

drop_small_blocks(doc, gone) ==
  remove_small_blocks(doc, gone, <<"p", "div", "ul", "ol", "li">>)

drop_bookmarks(doc, gone) ==
  remove_bookmarks(doc, gone, <<"button", "a", "span", "div", "p">>)

sanitize_article_html(html_fragment) ==
  serialize(
    html_fragment,
    strip_trailing_passes(
      html_fragment,
      drop_bookmarks(
        html_fragment,
        drop_small_blocks(
          html_fragment,
          drop_nav_anchors(
            html_fragment,
            drop_comment_anchors(
              html_fragment,
              drop_comment_prompts(
                html_fragment,
                drop_patterns(html_fragment, drop_tags(html_fragment))))))),
      3))

(* ------------------------- fragments to sanitize ---------------------- *)
\* the variables of link and book discovery, and their values while another
\* function runs
crawlVars ==
  <<start_url, max_depth, allow_outside, include_pattern, exclude_pattern, max_pages,
    index_url, max_books, max_index_pages, cache, anchors, queue, linksVars, booksVars,
    fetch_log, anchor_log>>

CrawlIdle ==
  /\ LinksIdle
  /\ BooksIdle
  /\ cache = [u \in {} |-> <<>>]
  /\ anchors = 0
  /\ queue = <<>>
  /\ fetch_log = <<>>
  /\ anchor_log = <<>>

\* the variables a content or metadata function leaves alone, and their values
\* while it runs
backVars == <<crawlVars, coverVars, runVars, author_token>>

BackIdle == CrawlIdle /\ CoverIdle /\ RunIdle /\ author_token = <<>>

\* what an element of each tag may contain (the parser closes a <p> before a
\* block, and <script> holds no elements)
CanContain(ptag, tag) ==
  \/ ptag \in {"div", "article", "main", "section"}
  \/ ptag \in {"p", "li"} /\ tag \in {"a", "span"}
  \/ ptag = "a" /\ tag = "span"

\* element i of doc is well placed: it is a child of <body>, or of an element
\* that may contain it
WellPlaced(doc, i) ==
  /\ doc[i].depth \in 1..(IF i = 1 THEN 1 ELSE doc[i - 1].depth + 1)
  /\ doc[i].depth > 1 => CanContain(doc[Parent(doc, i)].tag, doc[i].tag)

\* the documents of exactly n elements with elements of the given kinds
RECURSIVE DocsOfLen(_, _)
DocsOfLen(kinds, n) ==
  IF n = 0 THEN {<<>>}
  ELSE { d \in { Append(d0, Element(k[1], k[2], k[3], k[4], depth)) :
                   d0 \in DocsOfLen(kinds, n - 1), k \in kinds, depth \in 1..n } :
         WellPlaced(d, n) }

DocsUpTo(kinds, n) == UNION {DocsOfLen(kinds, m) : m \in 1..n}

\* the elements of the fragments: <<tag, class, href, text>>
SanitizeKinds ==
  { <<"p", "", "", <<NavSentence>>>>,
    <<"p", "", "", <<LongSentence>>>>,
    <<"p", "", "", <<CommentPrompt>>>>,
    <<"div", "", "", <<>>>>,
    <<"div", "comments", "", <<MidSentence>>>>,
    <<"li", "", "", <<NextText>>>>,
    <<"a", "", "/lessons/2", <<NextText>>>>,
    <<"a", "", "#respond", <<MidSentence>>>>,
    <<"span", "", "", <<BookmarkText>>>>,
    <<"span", "bookmark-btn", "", <<>>>>,
    <<"script", "", "", <<>>>> }

SanitizeInit ==
  /\ fn = "sanitize_article_html"
  /\ html \in DocsUpTo(SanitizeKinds, MaxElements)
  /\ title = ""
  /\ pc = "call"
  /\ result = <<>>
  /\ BackIdle

\* sanitize_article_html(html_fragment)
SanitizeArticleHtml ==
  /\ fn = "sanitize_article_html" /\ pc = "call"
  /\ result' = sanitize_article_html(html)
  /\ pc' = "done"
  /\ UNCHANGED <<fn, html, title, backVars>>

\* sanitize_article_html run again on the fragment it returned
SanitizeAgain ==
  /\ fn = "sanitize_article_html" /\ pc = "done"
  /\ html' = result
  /\ result' = sanitize_article_html(result)
  /\ pc' = "again"
  /\ UNCHANGED <<fn, title, backVars>>

SanitizeNext == SanitizeArticleHtml \/ SanitizeAgain

SpecSanitize == SanitizeInit /\ [][SanitizeNext]_vars

\* C11: sanitize_article_html is idempotent: run on its own output, it returns
\* that output unchanged (the second run removes nothing more)
C11_SanitizeIdempotent ==
  (fn = "sanitize_article_html" /\ pc = "again") => result = html


(* ---------------------- strip_redundant_headings ---------------------- *)
\* str.lower() of a word
Lower(t) ==
  CASE t \in {"Chapter", "CHAPTER"} -> "chapter"
    [] t = "One" -> "one"
    [] t = "Part" -> "part"
    [] t = "Two" -> "two"
    [] t = "Notes" -> "notes"
    [] OTHER -> t

\* runs of whitespace inside a text, as tokens
Whitespace == {"  "}

lower_all(s) == [i \in 1..Len(s) |-> Lower(s[i])]

\* _norm_text: trimmed, lower-cased, whitespace runs collapsed to one space
norm_text(s) == lower_all(SelectSeq(s, LAMBDA t : t \notin Whitespace))

\* "(txt == want) or (txt and want and (txt in want or want in txt))"
is_match(txt, want) ==
  \/ txt = want
  \/ txt # <<>> /\ want # <<>> /\ (Contains(want, txt) \/ Contains(txt, want))

\* _norm_text(h.get_text(" ", strip=True))
heading_text(doc, gone, i) == norm_text(joined(doc, text_nodes(doc, gone, i)))

\* pass 1 with every matching heading kept
keep_first_match_keep_all(want, gone, seen, sub, txt) == [gone |-> gone, seen |-> TRUE]

\* "if is_match: if seen: h.decompose() else: seen = True"
keep_first_match(want, gone, seen, sub, txt) ==
  IF ~is_match(txt, want) THEN [gone |-> gone, seen |-> seen]
  ELSE IF seen THEN [gone |-> gone \cup sub, seen |-> TRUE]
  ELSE [gone |-> gone, seen |-> TRUE]

\* the headings of pass 1 as the loops meet them: every h1, then every h2, then
\* every h3 (each list is taken when its loop starts; pass 1 removes headings
\* only, which hold no headings)
headings_by_level(doc, gone) ==
  find_all(doc, gone, {"h1"}) \o find_all(doc, gone, {"h2"}) \o find_all(doc, gone, {"h3"})

\* pass 1 of strip_redundant_headings over the headings hs
RECURSIVE first_pass(_, _, _, _)
first_pass(doc, want, hs, acc) ==
  IF hs = <<>> THEN acc.gone
  ELSE first_pass(doc, want, Tail(hs),
                  keep_first_match(want, acc.gone, acc.seen, Subtree(doc, Head(hs)),
                                   heading_text(doc, acc.gone, Head(hs))))

\* "if txt and key in seen_texts: h.decompose() else: seen_texts.add(key)"
dedupe_verbatim(gone, seen_texts, sub, key) ==
  IF key[2] # <<>> /\ key \in seen_texts
  THEN [gone |-> gone \cup sub, seen_texts |-> seen_texts]
  ELSE [gone |-> gone, seen_texts |-> seen_texts \cup {key}]

\* pass 2 of strip_redundant_headings over the headings hs
RECURSIVE second_pass(_, _, _)
second_pass(doc, hs, acc) ==
  IF hs = <<>> THEN acc.gone
  ELSE second_pass(doc, Tail(hs),
                   dedupe_verbatim(acc.gone, acc.seen_texts, Subtree(doc, Head(hs)),
                                   <<doc[Head(hs)].tag,
                                     heading_text(doc, acc.gone, Head(hs))>>))

\* the headings left by pass 1
after_first_pass(doc, want) ==
  first_pass(doc, want, headings_by_level(doc, {}), [gone |-> {}, seen |-> FALSE])

\* the headings left by pass 2
after_second_pass(doc, gone) ==
  second_pass(doc, headings_by_level(doc, gone), [gone |-> gone, seen_texts |-> {}])

strip_redundant_headings(title_arg, html_fragment) ==
  serialize(html_fragment,
            after_second_pass(html_fragment,
                              after_first_pass(html_fragment, norm_text(title_arg))))

\* the elements of the fragments: <<tag, class, href, text>>
HeadingKinds ==
  { <<"h1", "", "", <<"Chapter", "One">>>>,
    <<"h1", "", "", <<"Chapter", "One", "Part", "Two">>>>,
    <<"h2", "", "", <<"Chapter", "One">>>>,
    <<"h2", "", "", <<"CHAPTER", "  ", "One">>>>,
    <<"h3", "", "", <<"Chapter", "One", "Part", "Two">>>>,
    <<"h3", "", "", <<"Notes">>>>,
    <<"div", "", "", <<>>>>,
    <<"p", "", "", <<MidSentence>>>> }

Titles == { <<"Chapter", "One">>, <<"Chapter", "One", "Part", "Two">> }

HeadingsInit ==
  /\ fn = "strip_redundant_headings"
  /\ html \in DocsUpTo(HeadingKinds, MaxElements)
  /\ title \in Titles
  /\ pc = "call"
  /\ result = <<>>
  /\ BackIdle

\* strip_redundant_headings(title, html_fragment)
StripRedundantHeadings ==
  /\ fn = "strip_redundant_headings" /\ pc = "call"
  /\ result' = strip_redundant_headings(title, html)
  /\ pc' = "done"
  /\ UNCHANGED <<fn, html, title, backVars>>

\* strip_redundant_headings run again on the fragment it returned
StripAgain ==
  /\ fn = "strip_redundant_headings" /\ pc = "done"
  /\ html' = result
  /\ result' = strip_redundant_headings(title, result)
  /\ pc' = "again"
  /\ UNCHANGED <<fn, title, backVars>>

HeadingsNext == StripRedundantHeadings \/ StripAgain

SpecHeadings == HeadingsInit /\ [][HeadingsNext]_vars

\* the headings of a fragment whose normalized text equals the normalized title
TitleHeadings(doc) ==
  SelectSeq(headings_by_level(doc, {}),
            LAMBDA i : heading_text(doc, {}, i) = norm_text(title))

\* the headings of a fragment that match the title, exactly or by containment
MatchingHeadings(doc) ==
  SelectSeq(headings_by_level(doc, {}),
            LAMBDA i : is_match(heading_text(doc, {}, i), norm_text(title)))

HeadingsDone == fn = "strip_redundant_headings" /\ pc = "done"

Untitled == <<"Untitled">>

\* str(n): the element i with its descendants, as a fragment of its own
outer_html(doc, i) ==
  [k \in 1..Cardinality(Subtree(doc, i)) |->
     [doc[i + k - 1] EXCEPT !.depth = @ - (doc[i].depth - 1)]]

\* len(BeautifulSoup(cleaned, "lxml").get_text(strip=True)),
\* len(n.get_text(strip=True))
stripped_len(doc, j) == text_len(doc, text_nodes(doc, {}, j), 0)

\* the class attributes the candidate regexes of <div> and <section> match
DivContentClasses == {"entry-content", "chapter"}
SectionContentClasses == {"chapter"}

\* soup.find_all(cand["name"], cand.get("attrs", {})) for the four candidates,
\* in the order the loops meet the nodes
candidate_nodes(doc) ==
  find_all(doc, {}, {"article"})
  \o find_all(doc, {}, {"main"})
  \o SelectSeq(find_all(doc, {}, {"div"}), LAMBDA i : doc[i].cls \in DivContentClasses)
  \o SelectSeq(find_all(doc, {}, {"section"}),
               LAMBDA i : doc[i].cls \in SectionContentClasses)

\* "best = None"
NoBest == <<0, 0>>

\* the update of best with ">=" for ">": the last candidate wins a tie
better_or_equal(best, text_length, n) ==
  IF text_length > 300 /\ (best = NoBest \/ text_length >= best[1])
  THEN <<text_length, n>> ELSE best

\* "if text_len > 300 and (best is None or text_len > best[0]): best = ..."
better(best, text_length, n) ==
  IF text_length > 300 /\ (best = NoBest \/ text_length > best[1])
  THEN <<text_length, n>> ELSE best

RECURSIVE best_candidate(_, _, _)
best_candidate(doc, nodes, best) ==
  IF nodes = <<>> THEN best
  ELSE best_candidate(doc, Tail(nodes),
                      better(best, stripped_len(doc, Head(nodes)), Head(nodes)))

\* soup.find(["h1", "h2", "title"]) or soup.title, then its text or "Untitled"
\* (the <title> of the <head> comes before every heading of the <body>)
fallback_title(page_title, doc) ==
  IF page_title # None THEN page_title
  ELSE IF find_all(doc, {}, {"h1", "h2"}) = <<>> THEN Untitled
  ELSE joined(doc, text_nodes(doc, {}, find_all(doc, {}, {"h1", "h2"})[1]))

\* "cleaned = sanitize_article_html(...); cleaned = strip_redundant_headings(...)"
clean(title_arg, fragment) ==
  strip_redundant_headings(title_arg, sanitize_article_html(fragment))

Extracted(title_arg, content, tier) ==
  [title |-> title_arg, content |-> content, tier |-> tier]

\* "if len(BeautifulSoup(cleaned, "lxml").get_text(strip=True)) > 150"
readability_accepted(cleaned) == stripped_len(cleaned, 0) > 150

\* the fallback tiers, given the best candidate
fallback_tiers(title_arg, doc, best) ==
  IF best # NoBest
  THEN Extracted(title_arg, clean(title_arg, outer_html(doc, best[2])), "container")
  ELSE Extracted(title_arg, clean(title_arg, doc), "body")

\* extract_content; summary is doc.summary(html_partial=True), empty when
\* readability is not installed, raises or returns nothing
extract_content(page_title, doc, short_title, summary) ==
  IF summary # <<>> /\ readability_accepted(clean(short_title, summary))
  THEN Extracted(short_title, clean(short_title, summary), "readability")
  ELSE fallback_tiers(fallback_title(page_title, doc), doc,
                      best_candidate(doc, candidate_nodes(doc), NoBest))

(* ------------------------------- pages -------------------------------- *)
LongText == <<LongSentence, LongSentence, LongSentence, LongSentence>>
LongerText == <<LongSentence, LongSentence, LongSentence, LongSentence, MidSentence>>
ShortText == <<LongSentence, LongSentence>>

\* the elements of the pages: <<tag, class, href, text>>
PageKinds ==
  { <<"article", "", "", LongText>>,
    <<"article", "comments", "", LongText>>,
    <<"div", "entry-content", "", LongerText>>,
    <<"section", "chapter", "", LongText>>,
    <<"p", "", "", ShortText>>,
    <<"h1", "", "", <<"Chapter", "One">>>> }

PageTitles == { None, <<"Chapter", "One">> }

\* doc.summary(html_partial=True): nothing, or one element of the page
Summaries(doc) == {<<>>} \cup {outer_html(doc, i) : i \in 1..Len(doc)}

\* doc.short_title() or "Untitled"
short_title_of(page_title) == IF page_title = None THEN Untitled ELSE page_title

ExtractInit ==
  /\ fn = "extract_content"
  /\ html \in DocsUpTo(PageKinds, MaxElements)
  /\ title \in PageTitles
  /\ pc = "call"
  /\ result = <<>>
  /\ BackIdle

\* extract_content(url, html)
ExtractContent ==
  /\ fn = "extract_content" /\ pc = "call"
  /\ \E summary \in Summaries(html) :
       result' = extract_content(title, html, short_title_of(title), summary)
  /\ pc' = "done"
  /\ UNCHANGED <<fn, html, title, backVars>>

ExtractNext == ExtractContent

SpecExtract == ExtractInit /\ [][ExtractNext]_vars

ExtractDone == fn = "extract_content" /\ pc = "done"

\* C13: extract_content never returns empty content, whichever tier produced it
C13_ContentNeverEmpty == ExtractDone => result.content # <<>>

\* the candidate at position k of the loops is a container of more than 300
\* characters, no candidate is longer and none before it is as long
IsWinner(doc, nodes, k) ==
  /\ stripped_len(doc, nodes[k]) > 300
  /\ \A j \in 1..Len(nodes) : stripped_len(doc, nodes[j]) <= stripped_len(doc, nodes[k])
  /\ \A j \in 1..(k - 1) : stripped_len(doc, nodes[j]) < stripped_len(doc, nodes[k])

HasCandidate(doc) ==
  \E i \in Range(candidate_nodes(doc)) : stripped_len(doc, i) > 300

\* C14: when the readability tier gives no result and a candidate container has
\* more than 300 characters of text, the result is the cleaned content of the
\* longest candidate, the first met on ties, and not the whole body
C14_LongestCandidateWins ==
  (ExtractDone /\ result.tier # "readability" /\ HasCandidate(html)) =>
    /\ result.tier = "container"
    /\ \E k \in 1..Len(candidate_nodes(html)) :
         /\ IsWinner(html, candidate_nodes(html), k)
         /\ result.content =
              clean(result.title, outer_html(html, candidate_nodes(html)[k]))

\* two candidates tie for the greatest length and the first one is returned
C14_Witness ==
  /\ ExtractDone /\ result.tier = "container"
  /\ result.content # <<>>
  /\ \E k1, k2 \in 1..Len(candidate_nodes(html)) :
       /\ k1 < k2
       /\ IsWinner(html, candidate_nodes(html), k1)
       /\ stripped_len(html, candidate_nodes(html)[k2])
            = stripped_len(html, candidate_nodes(html)[k1])
       /\ result.content # clean(result.title, outer_html(html, candidate_nodes(html)[k2]))


(***************************************************************************)
(* Metadata functions: parse_title_author_from_html and                    *)
(* fs_safe_basename_from_title.  A title string is the sequence of its     *)
(* characters, a run of letters being one token: " " is a whitespace       *)
(* character, "-" the hyphen, "en-dash" the en dash, "." a dot, "/" and    *)
(* "\\" the path separators and "NUL" the character \x00.                  *)
(***************************************************************************)
WhitespaceChars == {" "}
DashChars == {"-", "en-dash"}

RECURSIVE lstrip(_, _)
lstrip(s, chars) ==
  IF s # <<>> /\ Head(s) \in chars THEN lstrip(Tail(s), chars) ELSE s

RECURSIVE rstrip(_, _)
rstrip(s, chars) ==
  IF s # <<>> /\ s[Len(s)] \in chars THEN rstrip(SubSeq(s, 1, Len(s) - 1), chars) ELSE s

\* str.strip()
strip(s) == rstrip(lstrip(s, WhitespaceChars), WhitespaceChars)

(* -------------------- parse_title_author_from_html -------------------- *)
\* the regex "[-–]" alone: a dash splits without whitespace around it
dash_at(raw, i) == raw[i] \in DashChars

\* a match of the regex r"\s[-–]\s" that ends at position i + 1
separator_at(raw, i) ==
  /\ i > 1 /\ i < Len(raw)
  /\ raw[i - 1] \in WhitespaceChars
  /\ raw[i] \in DashChars
  /\ raw[i + 1] \in WhitespaceChars

\* the position of the dash of the leftmost match from position i on, or 0
RECURSIVE first_separator(_, _)
first_separator(raw, i) ==
  IF i > Len(raw) THEN 0
  ELSE IF separator_at(raw, i) THEN i
  ELSE first_separator(raw, i + 1)

\* re.split(r"\s[-–]\s", raw, maxsplit=1), given the dash of the first match
re_split(raw, i) ==
  IF i = 0 THEN <<raw>>
  ELSE <<SubSeq(raw, 1, i - 2), SubSeq(raw, i + 2, Len(raw))>>

\* "x.strip() or None"
strip_or_none(s) == IF strip(s) = <<>> THEN None ELSE strip(s)

\* "raw = ...": the <title> string when the page has a non-empty <title>, else
\* the text of the first <h1>, else None
raw_title(page_title, doc) ==
  IF page_title # None /\ page_title # <<>> THEN strip(page_title)
  ELSE IF find_all(doc, {}, {"h1"}) = <<>> THEN None
  ELSE strip(joined(doc, text_nodes(doc, {}, find_all(doc, {}, {"h1"})[1])))

Parsed(raw, title_only, author) ==
  [raw_full_title |-> raw, title_only |-> title_only, author |-> author]

\* the part of parse_title_author_from_html after "raw" is set
split_title(raw, m) ==
  IF raw = None \/ raw = <<>> THEN Parsed(None, None, None)
  ELSE IF Len(m) = 2 THEN Parsed(raw, strip_or_none(m[1]), strip_or_none(m[2]))
  ELSE Parsed(raw, raw, None)

parse_title_author_from_html(page_title, doc) ==
  split_title(raw_title(page_title, doc),
              re_split(raw_title(page_title, doc),
                       first_separator(raw_title(page_title, doc), 1)))

\* the characters of the page titles
TitleChars == {"T", "A", " ", "-", "en-dash"}

\* the strings of at most n characters
RECURSIVE StringsUpTo(_, _)
StringsUpTo(chars, n) ==
  IF n = 0 THEN {<<>>}
  ELSE StringsUpTo(chars, n - 1)
       \cup {Append(s, c) : s \in StringsUpTo(chars, n - 1), c \in chars}

\* the pages: with or without an <h1>
HeadlinePages == { <<>>, <<Element("h1", "", "", <<"A", " ", "en-dash", " ", "T">>, 1)>> }

ParseInit ==
  /\ fn = "parse_title_author_from_html"
  /\ html \in HeadlinePages
  /\ title \in {None} \cup StringsUpTo(TitleChars, MaxTitleLen)
  /\ pc = "call"
  /\ result = <<>>
  /\ BackIdle

\* parse_title_author_from_html(html)
ParseTitleAuthor ==
  /\ fn = "parse_title_author_from_html" /\ pc = "call"
  /\ result' = parse_title_author_from_html(title, html)
  /\ pc' = "done"
  /\ UNCHANGED <<fn, html, title, backVars>>

ParseNext == ParseTitleAuthor

SpecParse == ParseInit /\ [][ParseNext]_vars

ParseDone == fn = "parse_title_author_from_html" /\ pc = "done"

\* the text the page title is read from: the <title>, or the <h1> when the
\* page has no <title> text
TitleSource ==
  IF title # None /\ title # <<>> THEN title
  ELSE IF html = <<>> THEN <<>> ELSE html[1].text

\* a hyphen or en dash at position i with a whitespace character on each side
IsSeparator(s, i) ==
  /\ i - 1 \in 1..Len(s) /\ i + 1 \in 1..Len(s)
  /\ s[i] \in {"-", "en-dash"}
  /\ s[i - 1] = " " /\ s[i + 1] = " "

\* C15: raw_full_title is the whole title text; the text is split once, at its
\* first hyphen or en dash surrounded by whitespace, into title_only (the part
\* before, trimmed) and author (the part after, trimmed); without such a
\* separator title_only is the whole text and author is None
C15_SplitAtFirstSeparator ==
  (ParseDone /\ strip(TitleSource) # <<>>) =>
    /\ result.raw_full_title = strip(TitleSource)
    /\ \A i \in 1..Len(result.raw_full_title) :
         (/\ IsSeparator(result.raw_full_title, i)
          /\ \A j \in 1..(i - 1) : ~IsSeparator(result.raw_full_title, j))
         => /\ result.title_only = strip(SubSeq(result.raw_full_title, 1, i - 1))
            /\ result.author =
                 strip(SubSeq(result.raw_full_title, i + 1, Len(result.raw_full_title)))
    /\ (\A i \in 1..Len(result.raw_full_title) : ~IsSeparator(result.raw_full_title, i))
       => /\ result.title_only = result.raw_full_title
          /\ result.author = None

\* a title split at its separator, with another dash left in the author
C15_Witness ==
  /\ ParseDone
  /\ result.author # None
  /\ result.title_only # result.raw_full_title
  /\ \E i \in 1..Len(result.author) : result.author[i] \in {"-", "en-dash"}


(* -------------------- fs_safe_basename_from_title --------------------- *)
DefaultBasename == <<"ebanglalibrary">>

\* s.replace("/", "／").replace("\\", "＼") of one character
fullwidth(c) ==
  CASE c = "/" -> "fullwidth-solidus"
    [] c = "\\" -> "fullwidth-reverse-solidus"
    [] OTHER -> c

\* s.replace("/", "／").replace("\\", "＼")
replace_separators(s) == [i \in 1..Len(s) |-> fullwidth(s[i])]

\* s.replace("\x00", "")
remove_nul(s) == SelectSeq(s, LAMBDA c : c # "NUL")

\* "s = s.strip().rstrip("."); return s or "ebanglalibrary""
trim_tail(s) ==
  IF rstrip(strip(s), {"."}) = <<>> THEN DefaultBasename ELSE rstrip(strip(s), {"."})

fs_safe_basename_from_title(title_arg) ==
  IF strip(title_arg) = <<>> THEN DefaultBasename
  ELSE trim_tail(remove_nul(replace_separators(strip(title_arg))))

\* the characters of the titles
BasenameChars == {"a", "/", "\\", "NUL", ".", " "}

BasenameInit ==
  /\ fn = "fs_safe_basename_from_title"
  /\ html = <<>>
  /\ title \in StringsUpTo(BasenameChars, MaxTitleLen)
  /\ pc = "call"
  /\ result = <<>>
  /\ BackIdle

\* fs_safe_basename_from_title(title)
FsSafeBasename ==
  /\ fn = "fs_safe_basename_from_title" /\ pc = "call"
  /\ result' = fs_safe_basename_from_title(title)
  /\ pc' = "done"
  /\ UNCHANGED <<fn, html, title, backVars>>

BasenameNext == FsSafeBasename

SpecBasename == BasenameInit /\ [][BasenameNext]_vars

\* C16: the basename holds no "/" and no "\", is not empty and does not end in
\* a dot or a space
C16_BasenameSafe ==
  (fn = "fs_safe_basename_from_title" /\ pc = "done") =>
    /\ "/" \notin Range(result)
    /\ "\\" \notin Range(result)
    /\ result # <<>>
    /\ result[Len(result)] \notin {".", " "}


(***************************************************************************)
(* extract_cover_image.  The page is a record: the image URLs of its       *)
(* <link rel="preload" as="image"> elements (the first URL of              *)
(* imagesrcset), and its <img> elements inside paragraphs, each with its   *)
(* src and the number of its paragraph.  Every requests.get is a step of   *)
(* its own: the server's answer is chosen when the request is made.        *)
(***************************************************************************)
CdnHost == "cdn.ebanglalibrary.com"

\* the page the cover is looked for in
base_url == Seed

\* the tokens that contain one of the substrings of bad_sub
BadSubTokens == {"logo.png"}

\* _should_skip_url
should_skip_url(u) ==
  \/ \E t \in Range(u) : t \in BadSubTokens
  \/ Contains(u, <<"/", "themes", "/">>)
  \/ (u # <<>> /\ u[Len(u)] \in {".svg", ".gif"})

\* "if not img_url.startswith(("http://", "https://")): img_url = urljoin(...)"
absolute_url(u) == IF StartsWith(u, "http://") THEN u ELSE urljoin(base_url, u)

\* the <img src> of the first three paragraphs, in document order, each with
\* priority 3
fallback_candidates(imgs) ==
  LET first3 == SelectSeq(imgs, LAMBDA img : img[2] <= 3 /\ img[1] # <<>>)
  IN  [k \in 1..Len(first3) |-> <<first3[k][1], 3>>]

\* '"cdn.ebanglalibrary.com" in u': pr += 2
boosted(u, pr) == IF CdnHost \in Range(u) THEN pr + 2 ELSE pr

\* one candidate of the loop "De-duplicate and filter obviously bad candidates"
filter_step(acc, u, pr) ==
  IF u = <<>> \/ should_skip_url(u) \/ Before(u, "?") \in acc.seen_urls THEN acc
  ELSE [filtered |-> Append(acc.filtered, <<u, boosted(u, pr)>>),
        seen_urls |-> acc.seen_urls \cup {Before(u, "?")}]

RECURSIVE filter_candidates(_, _)
filter_candidates(cands, acc) ==
  IF cands = <<>> THEN acc.filtered
  ELSE filter_candidates(Tail(cands), filter_step(acc, Head(cands)[1], Head(cands)[2]))

\* the sort key with reverse=True: x stays before y when its priority is not lower
comes_before(x, y) == x[2] >= y[2]

\* filtered.sort(key=lambda x: x[1], reverse=True): stable, by insertion
RECURSIVE insert_by_priority(_, _)
insert_by_priority(x, sorted) ==
  IF sorted = <<>> THEN <<x>>
  ELSE IF comes_before(Head(sorted), x)
    THEN <<Head(sorted)>> \o insert_by_priority(x, Tail(sorted))
  ELSE <<x>> \o sorted

RECURSIVE sort_by_priority(_)
sort_by_priority(cands) ==
  IF cands = <<>> THEN <<>>
  ELSE insert_by_priority(cands[Len(cands)],
                          sort_by_priority(SubSeq(cands, 1, Len(cands) - 1)))

\* what a server answers: an HTTP error or no answer at all, a page that is
\* not an image, an image
Responses == {"error", "text/html", "image/jpeg"}

\* the check of the answer without the content type
is_image_any_type(response) == response # "error"

\* raise_for_status() passed and content_type.startswith("image/")
is_image(response) == response = "image/jpeg"

\* img_resp.content
content_of(url) == <<"bytes of">> \o url

Download(url, response) == [url |-> url, response |-> response]

(* ------------------------------ the pages ----------------------------- *)
PlainImg == <<"http://", "a.com", "/", "x.jpg">>
CdnImg == <<"http://", CdnHost, "/", "c.jpg">>
\* an image proxy: the CDN's name is in the path, the host is another one
ProxyImg == <<"http://", "i0.wp.com", "/", CdnHost, "/", "c.jpg">>

ImgSrcs ==
  { PlainImg,
    PlainImg \o <<"?", "w">>,
    CdnImg,
    ProxyImg,
    <<"/", "y.jpg">>,
    <<"http://", "a.com", "/", "logo.png">> }

\* the <img> elements: <<src, number of the paragraph>>, in document order
RECURSIVE ImgLists(_)
ImgLists(n) ==
  IF n = 0 THEN {<<>>}
  ELSE ImgLists(n - 1)
       \cup { Append(l, <<src, para>>) :
                l \in ImgLists(n - 1), src \in ImgSrcs, para \in {1, 4} }

CoverPages ==
  { [preload |-> pre, imgs |-> l] :
      pre \in {<<>>, <<PlainImg>>, << <<"/", "y.jpg">> >>},
      l \in { l \in ImgLists(MaxImages) :
                \A k \in 1..(Len(l) - 1) : l[k][2] <= l[k + 1][2] } }

\* the state extract_cover_image does not touch
CoverRestIdle == title = "" /\ author_token = <<>> /\ CrawlIdle /\ RunIdle

CoverInit ==
  /\ fn = "extract_cover_image"
  /\ html \in CoverPages
  /\ preload_links = html.preload
  /\ filtered = <<>>
  /\ downloads = <<>>
  /\ pc = "preload"
  /\ result = <<>>
  /\ CoverRestIdle

\* one turn of the loop over the preload links: the download, and the return
\* when it is an image
CoverPreload ==
  /\ fn = "extract_cover_image" /\ pc = "preload" /\ preload_links # <<>>
  /\ \E response \in Responses :
       /\ downloads' = Append(downloads, Download(absolute_url(Head(preload_links)), response))
       /\ IF is_image(response)
          THEN /\ result' = <<absolute_url(Head(preload_links)),
                              content_of(absolute_url(Head(preload_links)))>>
               /\ pc' = "done"
               /\ UNCHANGED preload_links
          ELSE /\ preload_links' = Tail(preload_links)
               /\ UNCHANGED <<result, pc>>
  /\ UNCHANGED <<fn, html, title, filtered, crawlVars, runVars, author_token>>

\* after the preload links: the candidates are collected, filtered and sorted
CoverFallback ==
  /\ fn = "extract_cover_image" /\ pc = "preload" /\ preload_links = <<>>
  /\ filtered' = sort_by_priority(
                   filter_candidates(fallback_candidates(html.imgs),
                                     [filtered |-> <<>>, seen_urls |-> {}]))
  /\ IF filtered' = <<>>
     THEN result' = None /\ pc' = "done"
     ELSE pc' = "download" /\ UNCHANGED result
  /\ UNCHANGED <<fn, html, title, preload_links, downloads, crawlVars, runVars, author_token>>

\* one turn of the loop over the sorted candidates
CoverDownload ==
  /\ fn = "extract_cover_image" /\ pc = "download" /\ filtered # <<>>
  /\ \E response \in Responses :
       /\ downloads' = Append(downloads, Download(absolute_url(Head(filtered)[1]), response))
       /\ IF is_image(response)
          THEN /\ result' = <<absolute_url(Head(filtered)[1]),
                              content_of(absolute_url(Head(filtered)[1]))>>
               /\ pc' = "done"
               /\ UNCHANGED filtered
          ELSE /\ filtered' = Tail(filtered)
               /\ UNCHANGED <<result, pc>>
  /\ UNCHANGED <<fn, html, title, preload_links, crawlVars, runVars, author_token>>

\* "return None" after the last candidate
CoverNone ==
  /\ fn = "extract_cover_image" /\ pc = "download" /\ filtered = <<>>
  /\ result' = None
  /\ pc' = "done"
  /\ UNCHANGED <<fn, html, title, coverVars, crawlVars, runVars, author_token>>

\* an exception outside the download: "except Exception: return None"
CoverRaise ==
  /\ fn = "extract_cover_image" /\ pc \in {"preload", "download"}
  /\ result' = None
  /\ pc' = "done"
  /\ UNCHANGED <<fn, html, title, coverVars, crawlVars, runVars, author_token>>

CoverNext ==
  \/ CoverPreload
  \/ CoverFallback
  \/ CoverDownload
  \/ CoverNone
  \/ CoverRaise

SpecCover == CoverInit /\ [][CoverNext]_vars

CoverDone == fn = "extract_cover_image" /\ pc = "done"

\* C17: a (URL, bytes) pair is returned only after a download of that URL that
\* succeeded with an image content type, it being the last download made; when
\* no download gave an image the result is None
C17_CoverOnlyAfterImageDownload ==
  CoverDone =>
    /\ result # None =>
         /\ downloads # <<>>
         /\ downloads[Len(downloads)] = Download(result[1], "image/jpeg")
         /\ result[2] = content_of(result[1])
    /\ (\A k \in 1..Len(downloads) : downloads[k].response # "image/jpeg") => result = None

\* a cover returned after a failed download and one of another content type
C17_Witness ==
  /\ CoverDone /\ result # None
  /\ \E j, k \in 1..Len(downloads) :
       downloads[j].response = "error" /\ downloads[k].response = "text/html"

\* C18: of two candidates left after the filter (all of base priority 3), one
\* served from the CDN host and one not, the one from the CDN host is tried first
C18_CdnHostTriedFirst ==
  (fn = "extract_cover_image" /\ pc = "download") =>
    \A i, j \in 1..Len(filtered) :
      (/\ url_netloc(absolute_url(filtered[j][1])) = CdnHost
       /\ url_netloc(absolute_url(filtered[i][1])) # CdnHost)
      => j < i

(* ------------------------ the runs of the page ------------------------ *)
\* The script runs top to bottom when a button is pressed: "Pack EPUB" builds
\* one EPUB from a list of chapter URLs (Manual URLs, Crawl from URL), "Batch
\* Generate EPUBs" one EPUB per book of an index.  discover_links,
\* discover_books_from_index and extract_cover_image are called by the runs and
\* specified above; here their results are inputs of the run.

\* the most URLs a chapter list holds
MaxChapters == 3

Manual == "Manual URLs"

Crawl == "Crawl from URL"

Batch == "Batch from Books Index"

\* the host names that contain "ebanglalibrary.com"
SiteHosts == {"www.ebanglalibrary.com"}

\* the chapter pages: two of the site, one of another site
ChapterUrls ==
  { <<"https://", "www.ebanglalibrary.com", "/lessons/1">>,
    <<"https://", "www.ebanglalibrary.com", "/lessons/2">>,
    <<"https://", "example.org", "/lessons/1">> }

\* the book pages of the index
BookUrls ==
  { <<"https://", "www.ebanglalibrary.com", "/books/1">>,
    <<"https://", "www.ebanglalibrary.com", "/books/2">>,
    <<"https://", "www.ebanglalibrary.com", "/books/3">> }

\* a page that came back: its <title> (None without one) and its lesson links
Page(page_title, lessons) == <<"html", page_title, lessons>>

TitleWithAuthor == <<"T", " ", "-", " ", "A">>

TitleAlone == <<"T">>

\* the start page of a crawl run, as fetch_html may return it
StartPages ==
  { Page(t, <<>>) : t \in {None, TitleAlone, TitleWithAuthor} }

\* the page of each book
BookPage(book_url) ==
  CASE book_url[3] = "/books/1" ->
         Page(TitleWithAuthor, << <<"https://", "www.ebanglalibrary.com", "/lessons/1">>,
                                  <<"https://", "www.ebanglalibrary.com", "/lessons/2">> >>)
    [] book_url[3] = "/books/2" ->
         Page(TitleAlone, << <<"https://", "www.ebanglalibrary.com", "/lessons/1">> >>)
    [] OTHER -> Page(None, <<>>)

\* the page of a chapter
ChapterPage == Page(<<"C">>, <<>>)

\* one thing the run did (a page fetch, a sleep, a file written) or reported
Event(kind, arg) == [kind |-> kind, arg |-> arg]

\* "ebanglalibrary.com" in u
on_site(u) == \E k \in 1..Len(u) : u[k] \in SiteHosts

\* list(dict.fromkeys(urls)): the first occurrence of each URL, in order
RECURSIVE dedupe(_, _)
dedupe(us, acc) ==
  IF us = <<>> THEN acc
  ELSE dedupe(Tail(us), IF Head(us) \in Range(acc) THEN acc ELSE Append(acc, Head(us)))

\* the filter without its test: every URL is kept
filter_urls_keep_all(us, allow) == dedupe(us, <<>>)

\* the URL filter of Pack EPUB
filter_urls(us, allow) == dedupe(SelectSeq(us, LAMBDA u : allow \/ on_site(u)), <<>>)

\* parse_title_author_from_html of a fetched page; the three values are None
\* when the run has no page ("if start_html_for_meta:")
page_meta(page) ==
  IF page = None THEN Parsed(None, None, None)
  ELSE parse_title_author_from_html(page[2], <<>>)

Collection == <<"eBanglaLibrary Collection">>

\* _bn_text
bn_text(s) == IF s = None THEN <<>> ELSE strip(s)

\* build_output_basename as the runs call it: without raw_full_title, and then
\* title_only is None as well (parse_title_author_from_html sets both or
\* neither), so the constructed form "<title_only> - <author_full>" is not built
build_output_basename(raw_full_title, title_only) ==
  fs_safe_basename_from_title(
    IF bn_text(raw_full_title) # <<>> THEN bn_text(raw_full_title)
    ELSE IF bn_text(title_only) # <<>> THEN bn_text(title_only)
    ELSE Collection)

\* "if raw_full_title: out_base = fs_safe_basename_from_title(raw_full_title)
\*  else: out_base = build_output_basename(...)"
out_base(meta) ==
  IF meta.raw_full_title # None THEN fs_safe_basename_from_title(meta.raw_full_title)
  ELSE build_output_basename(meta.raw_full_title, meta.title_only)

\* final_output_dir below OUTPUT_DIR: <<>> is OUTPUT_DIR itself
final_output_dir(author) ==
  IF author # None THEN fs_safe_basename_from_title(author) ELSE <<>>

\* os.path.join(final_output_dir, f"{out_base}.epub")
out_path(meta) == <<final_output_dir(meta.author), out_base(meta)>>

\* os.path.exists(out_path)
exists(path, fs) == path \in fs

\* open(out_path, "wb").write(data): the event tells whether a file was there
write_file(path, fs) == Event(IF path \in fs THEN "overwrite" ELSE "write", path)

\* the paths of the books and runs
KnownPaths ==
  {out_path(page_meta(p)) : p \in StartPages \cup {None}}

\* what fetching and extracting one chapter may come to
ChapterOutcomes == {"ok", "fetch failed", "extract failed"}

\* what the turn of one chapter does and reports: the fetch, st.error when the
\* fetch or extract_content raised
chapter_events(url, outcome) ==
  <<Event(IF outcome = "fetch failed" THEN "fetch failed" ELSE "fetch", url)>>
  \o (IF outcome = "ok" THEN <<>> ELSE <<Event("error", url)>>)

\* the chapter loop "aborts" at the first failed chapter
after_chapter_reraise(outcome) == IF outcome = "ok" THEN "chapters" ELSE "stopped"

\* where Pack EPUB goes after the turn of a chapter: "except Exception as e:
\* st.error(...)" keeps the loop going
after_chapter(outcome) == "chapters"

\* "if mode == "Crawl from URL" and throttle_min: time.sleep(...)"
throttle(m, delay) == IF m = Crawl /\ delay > 0 THEN <<Event("sleep", <<>>)>> ELSE <<>>

\* st.stop() with a warning or an error about the input
Stopped(reason) == Event("stop", <<reason>>)

RunInit ==
  /\ fn \in {"Pack EPUB", "Batch Generate EPUBs"}
  /\ mode \in {Manual, Crawl, Batch}
  /\ fn = "Batch Generate EPUBs" => mode = Batch
  /\ start_url \in (IF fn = "Pack EPUB" /\ mode = Crawl THEN {<<>>, Seed} ELSE {<<>>})
  /\ index_url \in (IF fn = "Batch Generate EPUBs" THEN {<<>>, BooksIndexUrl} ELSE {<<>>})
  /\ allow_outside \in (IF fn = "Pack EPUB" /\ mode # Batch THEN BOOLEAN ELSE {FALSE})
  /\ throttle_min \in (IF mode = Manual THEN {0} ELSE {0, 1})
  /\ raw_urls \in (IF fn = "Pack EPUB" /\ mode # Batch
                   THEN StringsUpTo(ChapterUrls, MaxChapters) ELSE {<<>>})
  /\ book_urls \in (IF fn = "Batch Generate EPUBs"
                    THEN {l \in StringsUpTo(BookUrls, MaxBooks) :
                            \A j, k \in 1..Len(l) : l[j] = l[k] => j = k}
                    ELSE {<<>>})
  /\ files \in SUBSET KnownPaths
  /\ start_html_for_meta = None
  /\ urls = <<>>
  /\ loop_index = 0
  /\ items = <<>>
  /\ book_title = Unbound
  /\ events = <<>>
  /\ pc = "start"
  /\ result = <<>>
  /\ max_depth = 0 /\ include_pattern = "" /\ exclude_pattern = "" /\ max_pages = 0
  /\ visited_pages = {} /\ found = <<>> /\ phase = "none"
  /\ max_books = 0 /\ max_index_pages = 0
  /\ visited_index_pages = {} /\ found_books = <<>> /\ seen_books = {}
  /\ cache = [u \in {} |-> <<>>]
  /\ anchors = 0
  /\ queue = <<>>
  /\ fetch_log = <<>>
  /\ anchor_log = <<>>
  /\ html = <<>>
  /\ title = ""
  /\ author_token = <<>>
  /\ CoverIdle

\* what a run leaves alone
runRest ==
  <<fn, mode, throttle_min, raw_urls, book_urls, crawlVars, html, title, author_token,
    coverVars, result>>

\* Pack EPUB up to the chapter loop: the URLs of the mode, the start page of a
\* crawl, the filter, and the early check for the file of a crawl
PackStart ==
  /\ fn = "Pack EPUB" /\ pc = "start"
  /\ \E page \in (IF mode = Crawl /\ start_url # <<>> /\ raw_urls # <<>>
                  THEN StartPages \cup {None} ELSE {None}) :
       LET fetched == IF mode = Crawl /\ start_url # <<>> /\ raw_urls # <<>>
                      THEN <<Event(IF page = None THEN "fetch failed" ELSE "fetch",
                                   start_url)>>
                      ELSE <<>>
           kept == filter_urls(raw_urls, allow_outside)
           out_path_early == out_path(page_meta(page))
       IN /\ start_html_for_meta' = page
          /\ IF mode = Batch THEN
               /\ events' = events \o <<Stopped("Batch mode uses the button below")>>
               /\ pc' = "stopped"
               /\ UNCHANGED <<urls, loop_index>>
             ELSE IF mode = Crawl /\ start_url = <<>> THEN
               /\ events' = events \o <<Stopped("Please enter a start URL")>>
               /\ pc' = "stopped"
               /\ UNCHANGED <<urls, loop_index>>
             ELSE IF raw_urls = <<>> THEN
               /\ events' = events \o <<Stopped("No links")>>
               /\ pc' = "stopped"
               /\ UNCHANGED <<urls, loop_index>>
             ELSE IF kept = <<>> THEN
               /\ events' = events \o fetched \o <<Stopped("No valid URLs to process")>>
               /\ pc' = "stopped"
               /\ urls' = kept
               /\ UNCHANGED loop_index
             ELSE IF mode = Crawl /\ exists(out_path_early, files) THEN
               /\ events' = events \o fetched \o <<Event("existing", out_path_early)>>
               /\ pc' = "stopped"
               /\ urls' = kept
               /\ UNCHANGED loop_index
             ELSE
               /\ events' = events \o fetched
               /\ pc' = "chapters"
               /\ urls' = kept
               /\ loop_index' = 1
  /\ UNCHANGED <<runRest, items, book_title, files>>

\* one turn of "for i, url in enumerate(urls, start=1)" of Pack EPUB
PackChapter ==
  /\ fn = "Pack EPUB" /\ pc = "chapters" /\ loop_index <= Len(urls)
  /\ \E outcome \in ChapterOutcomes :
       /\ events' = events \o chapter_events(urls[loop_index], outcome)
                           \o throttle(mode, throttle_min)
       /\ items' = IF outcome = "ok" THEN Append(items, urls[loop_index]) ELSE items
       /\ pc' = after_chapter(outcome)
  /\ loop_index' = loop_index + 1
  /\ UNCHANGED <<runRest, start_html_for_meta, urls, book_title, files>>

\* book_title as Pack EPUB sets it from the start page: the page title, else None
title_of_start_page(meta) ==
  IF meta.raw_full_title # None THEN meta.raw_full_title
  ELSE IF meta.title_only # None THEN meta.title_only
  ELSE None

\* "book_title = raw_full or first_title or "eBanglaLibrary Collection"", and
\* the same default when the fetch of the first URL raised
title_of_first_page(page) ==
  IF title_of_start_page(page_meta(page)) = None THEN Collection
  ELSE title_of_start_page(page_meta(page))

\* Pack EPUB after the chapter loop: the metadata of the start page, the title
\* of the first URL when there is none, make_epub, the check for the file, and
\* the write
PackFinish ==
  /\ fn = "Pack EPUB" /\ pc = "chapters" /\ loop_index > Len(urls)
  /\ LET meta == page_meta(start_html_for_meta)
         no_title == title_of_start_page(meta) = None
     IN IF items = <<>> THEN
          /\ events' = events \o <<Stopped("No items extracted")>>
          /\ pc' = "stopped"
          /\ UNCHANGED <<book_title, files>>
        ELSE
          \E first \in (IF no_title THEN {None, ChapterPage} ELSE {None}),
             built \in BOOLEAN :
            LET fetched == IF no_title
                           THEN <<Event(IF first = None THEN "fetch failed" ELSE "fetch",
                                        raw_urls[1])>>
                           ELSE <<>>
            IN /\ book_title' = IF no_title THEN title_of_first_page(first)
                                ELSE title_of_start_page(meta)
               /\ IF ~built THEN
                    /\ events' = events \o fetched \o <<Event("exception", <<"make_epub">>)>>
                    /\ pc' = "stopped"
                    /\ UNCHANGED files
                  ELSE IF exists(out_path(meta), files) THEN
                    /\ events' = events \o fetched \o <<Event("existing", out_path(meta))>>
                    /\ pc' = "stopped"
                    /\ UNCHANGED files
                  ELSE
                    /\ events' = events \o fetched \o <<write_file(out_path(meta), files)>>
                    /\ files' = files \cup {out_path(meta)}
                    /\ pc' = "done"
  /\ UNCHANGED <<runRest, start_html_for_meta, urls, loop_index, items>>

\* Batch Generate EPUBs up to the book loop: the index URL, the books, and the
\* loop that resolves the title of each book (a fetch of each book page)
BatchStart ==
  /\ fn = "Batch Generate EPUBs" /\ pc = "start"
  /\ IF index_url = <<>> THEN
       /\ events' = events \o <<Stopped("Please enter the books index URL")>>
       /\ pc' = "stopped"
       /\ UNCHANGED loop_index
     ELSE IF book_urls = <<>> THEN
       /\ events' = events \o <<Stopped("No books discovered from the index")>>
       /\ pc' = "stopped"
       /\ UNCHANGED loop_index
     ELSE
       \E ok \in [1..Len(book_urls) -> BOOLEAN] :
         /\ events' = events \o [k \in 1..Len(book_urls) |->
                                   Event(IF ok[k] THEN "fetch" ELSE "fetch failed",
                                         book_urls[k])]
         /\ pc' = "books"
         /\ loop_index' = 1
  /\ UNCHANGED <<runRest, start_html_for_meta, urls, items, book_title, files>>

\* book_title as the book loop sets it from the page of the book
title_of_book(meta) ==
  IF title_of_start_page(meta) = None THEN <<"eBanglaLibrary Book">>
  ELSE title_of_start_page(meta)

\* fetch_html is cached: a page that came back once comes back again
is_cached(url, log) == \E k \in 1..Len(log) : log[k] = Event("fetch", url)

\* the chapter loop of a book: the events of every lesson, in order
RECURSIVE lesson_events(_, _, _)
lesson_events(lessons, outcomes, k) ==
  IF k > Len(lessons) THEN <<>>
  ELSE chapter_events(lessons[k], outcomes[k]) \o lesson_events(lessons, outcomes, k + 1)

\* the items of the chapter loop of a book: the lessons that were extracted
RECURSIVE lesson_items(_, _, _)
lesson_items(lessons, outcomes, k) ==
  IF k > Len(lessons) THEN <<>>
  ELSE (IF outcomes[k] = "ok" THEN <<lessons[k]>> ELSE <<>>)
       \o lesson_items(lessons, outcomes, k + 1)

\* the body of the book loop from "book_html = fetch_html(book_url)" on: what
\* it reports, and the file it writes.  make_epub returns the author it is
\* given, so "if author and author != meta_author" is never taken.
book_body(book_url, page, outcomes, built, fs) ==
  LET meta == page_meta(page)
      lessons == IF page = None THEN <<>> ELSE page[3]
      pause == <<Event("sleep", <<>>)>>
  IN IF page = None THEN
       [events |-> <<Event("fetch failed", book_url), Event("error", book_url)>> \o pause,
        files |-> fs, items |-> <<>>]
     ELSE IF exists(out_path(meta), fs) THEN
       [events |-> <<Event("fetch", book_url), Event("existing", out_path(meta))>>,
        files |-> fs, items |-> <<>>]
     ELSE IF lessons = <<>> THEN
       [events |-> <<Event("fetch", book_url), Event("warning", book_url)>> \o pause,
        files |-> fs, items |-> <<>>]
     ELSE IF lesson_items(lessons, outcomes, 1) = <<>> THEN
       [events |-> <<Event("fetch", book_url)>> \o lesson_events(lessons, outcomes, 1)
                   \o <<Event("warning", book_url)>> \o pause,
        files |-> fs, items |-> <<>>]
     ELSE IF ~built THEN
       [events |-> <<Event("fetch", book_url)>> \o lesson_events(lessons, outcomes, 1)
                   \o <<Event("error", book_url)>> \o pause,
        files |-> fs, items |-> lesson_items(lessons, outcomes, 1)]
     ELSE
       [events |-> <<Event("fetch", book_url)>> \o lesson_events(lessons, outcomes, 1)
                   \o <<write_file(out_path(meta), fs)>> \o pause,
        files |-> fs \cup {out_path(meta)},
        items |-> lesson_items(lessons, outcomes, 1)]

\* one turn of "for b_idx, book_url in enumerate(book_urls, start=1)".  The
\* first statement of the body formats book_title into the status line; while
\* no statement has assigned the name this raises NameError, which
\* "except Exception as e: st.error(...)" reports as the failure of the book.
BatchBook ==
  /\ fn = "Batch Generate EPUBs" /\ pc = "books" /\ loop_index <= Len(book_urls)
  /\ IF book_title = Unbound THEN
       /\ events' = events \o <<Event("error", book_urls[loop_index]),
                                Event("sleep", <<>>)>>
       /\ UNCHANGED <<items, book_title, files>>
     ELSE
       \E page \in (IF is_cached(book_urls[loop_index], events)
                    THEN {BookPage(book_urls[loop_index])}
                    ELSE {None, BookPage(book_urls[loop_index])}),
          outcomes \in [1..MaxChapters -> ChapterOutcomes],
          built \in BOOLEAN :
         LET after == book_body(book_urls[loop_index], page, outcomes, built, files)
         IN /\ events' = events \o after.events
            /\ files' = after.files
            /\ items' = after.items
            /\ book_title' = IF page = None THEN book_title
                              ELSE title_of_book(page_meta(page))
  /\ loop_index' = loop_index + 1
  /\ UNCHANGED <<runRest, start_html_for_meta, urls, pc>>

\* after the book loop: "Generated n EPUB file(s)" or "No EPUBs were generated"
BatchEnd ==
  /\ fn = "Batch Generate EPUBs" /\ pc = "books" /\ loop_index > Len(book_urls)
  /\ events' = events \o
       <<Event(IF \E k \in 1..Len(events) : events[k].kind \in {"write", "overwrite"}
               THEN "success" ELSE "none generated", <<>>)>>
  /\ pc' = "done"
  /\ UNCHANGED <<runRest, start_html_for_meta, urls, loop_index, items, book_title, files>>

RunNext ==
  \/ PackStart
  \/ PackChapter
  \/ PackFinish
  \/ BatchStart
  \/ BatchBook
  \/ BatchEnd

SpecRun == RunInit /\ [][RunNext]_vars

\* st.error reported the failure of url
reported_failed(url) == \E k \in 1..Len(events) : events[k] = Event("error", url)

\* a fetch of url was made, whether or not a page came back
fetch_tried(url) ==
  \E k \in 1..Len(events) :
    events[k] = Event("fetch", url) \/ events[k] = Event("fetch failed", url)

\* C19: in every mode a run writes nothing to an output path at which a file
\* exists, and the existence of the file is a normal outcome: a run of Pack
\* EPUB that finds it ends by offering the existing file, and a book of a batch
\* run whose page came back and whose file exists is not reported as failed
C19_ExistingFileNeverOverwritten ==
  /\ \A k \in 1..Len(events) : events[k].kind # "overwrite"
  /\ (fn = "Pack EPUB" /\ pc = "stopped" /\ loop_index > Len(urls) /\ items # <<>>
      /\ exists(out_path(page_meta(start_html_for_meta)), files))
       => events[Len(events)].kind \in {"existing", "exception"}
  /\ fn = "Batch Generate EPUBs" =>
       \A b \in 1..Len(book_urls) :
         (/\ b < loop_index
          /\ is_cached(book_urls[b], events)
          /\ exists(out_path(page_meta(BookPage(book_urls[b]))), files))
         => ~reported_failed(book_urls[b])

\* the chapters Pack EPUB has been through
chapters_done == SubSeq(urls, 1, loop_index - 1)

\* C20: a failure of one item does not end the run.  Pack EPUB leaves the
\* chapter loop only after the last chapter; every chapter it has been through
\* was fetched and is either reported as failed or among the items, and the
\* items are the chapters not reported, in the order of the URL list.  The book
\* loop goes through every book, and each failed book is reported and followed
\* by the next one.
C20_FailureNeverAborts ==
  /\ (fn = "Pack EPUB" /\ loop_index > 0) =>
       /\ pc \in {"stopped", "done"} => loop_index = Len(urls) + 1
       /\ \A k \in 1..Len(chapters_done) :
            /\ fetch_tried(urls[k])
            /\ reported_failed(urls[k]) <=> urls[k] \notin Range(items)
       /\ items = SelectSeq(chapters_done, LAMBDA u : ~reported_failed(u))
  /\ (fn = "Batch Generate EPUBs" /\ loop_index > 0) =>
       /\ pc = "done" => loop_index = Len(book_urls) + 1
       /\ \A b \in 1..Len(book_urls) :
            (b < loop_index /\ ~reported_failed(book_urls[b])) =>
              \E k \in 1..Len(events) :
                events[k].kind \in {"existing", "warning", "write"}

\* a run of Pack EPUB that wrote its file after the second of three chapters
\* failed: the first and the third are the items, in that order
C20_Witness ==
  /\ fn = "Pack EPUB" /\ pc = "done"
  /\ Len(urls) = 3
  /\ reported_failed(urls[2])
  /\ items = <<urls[1], urls[3]>>

\* the run fetched, or tried to fetch, a page
any_fetch == \E k \in 1..Len(events) : events[k].kind \in {"fetch", "fetch failed"}

\* the run wrote a file
any_write == \E k \in 1..Len(events) : events[k].kind \in {"write", "overwrite"}

\* the run was given no input to work on: no start URL in Crawl mode, no index
\* URL for a batch, no URL in Manual mode
config_error ==
  \/ fn = "Pack EPUB" /\ mode = Crawl /\ start_url = <<>>
  \/ fn = "Pack EPUB" /\ mode = Manual /\ raw_urls = <<>>
  \/ fn = "Batch Generate EPUBs" /\ index_url = <<>>

\* no URL of the list passes the filter
none_admitted == \A k \in 1..Len(raw_urls) : ~(allow_outside \/ on_site(raw_urls[k]))

\* C21: a run with a configuration error stops at once, before any page fetch,
\* and a run of Pack EPUB whose URL list is empty after the filter writes no
\* file
C21_ConfigErrorAborts ==
  /\ (config_error /\ pc # "start") => (pc = "stopped" /\ ~any_fetch /\ ~any_write)
  /\ (fn = "Pack EPUB" /\ none_admitted) => (pc \in {"start", "stopped"} /\ ~any_write)

\* a crawl whose links are all of another site and not allowed: the start page
\* was fetched, the run stopped, nothing was written
C21_Witness ==
  /\ fn = "Pack EPUB" /\ mode = Crawl /\ pc = "stopped"
  /\ raw_urls # <<>> /\ none_admitted
  /\ any_fetch /\ ~any_write

\* the k-th event is a page fetch, whether or not a page came back
is_fetch(k) == events[k].kind \in {"fetch", "fetch failed"}

\* C22: in a crawl or batch run with a positive delay, a sleep lies between any
\* two successive page fetches of the run
C22_DelayBetweenFetches ==
  (mode \in {Crawl, Batch} /\ throttle_min > 0) =>
    \A j, k \in 1..Len(events) :
      (j < k /\ is_fetch(j) /\ is_fetch(k)) =>
        \E n \in (j + 1)..(k - 1) : events[n].kind = "sleep"

\* the lesson links of the page of a book
lessons_of(book_url) == BookPage(book_url)[3]

\* C23: a batch run produces one EPUB per discovered book.  At the end of the
\* book loop, for every book whose page came back and has a lesson link, the
\* file of the book exists (it was there, or the run wrote it), unless the run
\* went through the chapters of the book and could extract none or could not
\* package them
C23_OneEpubPerBook ==
  (fn = "Batch Generate EPUBs" /\ pc = "done") =>
    \A b \in 1..Len(book_urls) :
      (is_cached(book_urls[b], events) /\ lessons_of(book_urls[b]) # <<>>) =>
        \/ exists(out_path(page_meta(BookPage(book_urls[b]))), files)
        \/ \A k \in 1..Len(lessons_of(book_urls[b])) :
             fetch_tried(lessons_of(book_urls[b])[k])

(* ------------------------------ make_epub ----------------------------- *)
\* The book is what make_epub hands to epub.write_epub: the items added to it,
\* its toc, its spine and its guide.  The names of the function (cover_image,
\* cover_page, chapters) are fields of the same record while it runs.

\* an item of the book: the cover image, the cover page, a chapter (with its
\* number and the item of the input it was made from), the NCX or the nav
EpubItem(kind, idx, content) == [kind |-> kind, idx |-> idx, content |-> content]

CoverImg == EpubItem("cover-img", 0, <<>>)

CoverPage == EpubItem("cover.xhtml", 0, <<>>)

Nav == EpubItem("nav", 0, <<>>)

\* "cover_page = None"
NoCoverPage == EpubItem("None", 0, <<>>)

\* the chapters of the input: (title, url) pairs, two of them with one title
ChapterItems == { <<"One", "u1">>, <<"Two", "u2">>, <<"One", "u3">> }

\* the cover given to make_epub: none, or an (img_url, img_data) pair
CoverImages == { None, <<"http://a.com/c.jpg", "bytes">> }

\* where the cover processing may raise: not at all, before the cover image is
\* added to the book, after it, or after the cover page is added as well
\* (set_cover, add_metadata, guide.append)
CoverFailures == {"none", "before add_item", "after add_item(cover_item)",
                  "after add_item(cover_page)"}

\* the book and the names of make_epub before the cover is processed
NewBook(cover_image) ==
  [cover_image |-> cover_image, cover_page |-> NoCoverPage, items |-> <<>>,
   guide |-> <<>>, chapters |-> <<>>, toc |-> <<>>, spine |-> <<>>]

\* "if cover_image: try: ... except Exception: cover_item = None; cover_page =
\* None": the items stay in the book as far as they were added
add_cover(book, failure) ==
  CASE failure = "before add_item" -> book
    [] failure = "after add_item(cover_item)" ->
         [book EXCEPT !.items = Append(@, CoverImg)]
    [] failure = "after add_item(cover_page)" ->
         [book EXCEPT !.items = @ \o <<CoverImg, CoverPage>>]
    [] OTHER ->
         [book EXCEPT !.items = @ \o <<CoverImg, CoverPage>>,
                      !.cover_page = CoverPage,
                      !.guide = Append(@, "cover.xhtml")]

\* one turn of "for idx, (title, url, content_html) in enumerate(items, start=1)"
add_chapter(book, idx, item) ==
  [book EXCEPT !.items = Append(@, EpubItem("chapter", idx, item)),
               !.chapters = Append(@, EpubItem("chapter", idx, item))]

\* the spine with the cover page after the nav
spine_cover_after_nav(cover_image, cover_page, chapters) ==
  IF cover_image # None /\ cover_page # NoCoverPage
  THEN <<Nav, cover_page>> \o chapters
  ELSE <<Nav>> \o chapters

\* "if cover_image and cover_page: book.spine = [cover_page, "nav", *chapters]
\*  else: book.spine = ["nav", *chapters]"
spine_of(cover_image, cover_page, chapters) ==
  IF cover_image # None /\ cover_page # NoCoverPage
  THEN <<cover_page, Nav>> \o chapters
  ELSE <<Nav>> \o chapters

\* the state make_epub does not use
EpubRestIdle ==
  /\ mode = "" /\ throttle_min = 0 /\ raw_urls = <<>> /\ book_urls = <<>>
  /\ start_html_for_meta = <<>> /\ urls = <<>> /\ book_title = Unbound
  /\ files = {} /\ events = <<>>
  /\ html = <<>> /\ title = "" /\ author_token = <<>>
  /\ CrawlIdle /\ CoverIdle

epubRest ==
  <<fn, items, mode, throttle_min, raw_urls, book_urls, start_html_for_meta, urls,
    book_title, files, events, html, title, author_token, crawlVars, coverVars>>

EpubInit ==
  /\ fn = "make_epub"
  /\ items \in StringsUpTo(ChapterItems, MaxChapters)
  /\ \E cover_image \in CoverImages : result = NewBook(cover_image)
  /\ loop_index = 0
  /\ pc = "cover"
  /\ EpubRestIdle

\* "if cover_image:" with a cover: the cover image and the cover page
EpubCover ==
  /\ fn = "make_epub" /\ pc = "cover" /\ result.cover_image # None
  /\ \E failure \in CoverFailures : result' = add_cover(result, failure)
  /\ pc' = "chapters"
  /\ loop_index' = 1
  /\ UNCHANGED epubRest

\* "if cover_image:" without a cover
EpubNoCover ==
  /\ fn = "make_epub" /\ pc = "cover" /\ result.cover_image = None
  /\ pc' = "chapters"
  /\ loop_index' = 1
  /\ UNCHANGED <<epubRest, result>>

\* one turn of the loop over the items
EpubChapter ==
  /\ fn = "make_epub" /\ pc = "chapters" /\ loop_index <= Len(items)
  /\ result' = add_chapter(result, loop_index, items[loop_index])
  /\ loop_index' = loop_index + 1
  /\ UNCHANGED <<epubRest, pc>>

\* after the loop: the toc, the spine, the NCX and the nav
EpubFinish ==
  /\ fn = "make_epub" /\ pc = "chapters" /\ loop_index > Len(items)
  /\ result' = [result EXCEPT
                  !.toc = result.chapters,
                  !.spine = spine_of(result.cover_image, result.cover_page,
                                     result.chapters),
                  !.items = @ \o <<EpubItem("ncx", 0, <<>>), Nav>>]
  /\ pc' = "done"
  /\ UNCHANGED <<epubRest, loop_index>>

EpubNext ==
  \/ EpubCover
  \/ EpubNoCover
  \/ EpubChapter
  \/ EpubFinish

SpecEpub == EpubInit /\ [][EpubNext]_vars

EpubDone == fn = "make_epub" /\ pc = "done"

\* the chapters as the claim expects them: one per item of the input, numbered
\* in the order of the input
chapters_in_input_order == [k \in 1..Len(items) |-> EpubItem("chapter", k, items[k])]

\* the cover processing ran to its end
cover_added == result.guide # <<>>

\* C24: the spine of the book make_epub builds is the cover page when the cover
\* was added, then the nav, then one chapter per input item in input order;
\* the toc is the same chapters in the same order; when the cover processing
\* failed, or there was no cover, the spine has no cover page
C24_SpineKeepsInputOrder ==
  EpubDone =>
    /\ result.toc = chapters_in_input_order
    /\ result.spine = (IF cover_added THEN <<CoverPage>> ELSE <<>>)
                      \o <<Nav>> \o chapters_in_input_order
    /\ cover_added => result.cover_image # None

\* a book with a cover and three chapters of which the first and the last have
\* the same title
C24_Witness ==
  /\ EpubDone /\ cover_added
  /\ items = << <<"One", "u3">>, <<"Two", "u2">>, <<"One", "u1">> >>

\* the headings of a fragment that match the title, in document order
MatchingInDocumentOrder(doc) ==
  SelectSeq(find_all(doc, {}, {"h1", "h2", "h3"}),
            LAMBDA i : is_match(heading_text(doc, {}, i), norm_text(title)))

\* C25: of the h1/h2/h3 headings that match the title, the one kept is the
\* first of the fragment in document order, whatever its level: the fragment
\* comes back with one matching heading, of the tag and text of that first one
C25_FirstInDocumentOrderKept ==
  (HeadingsDone /\ MatchingInDocumentOrder(html) # <<>>) =>
    /\ Len(MatchingInDocumentOrder(result)) = 1
    /\ result[MatchingInDocumentOrder(result)[1]].tag
         = html[MatchingInDocumentOrder(html)[1]].tag
    /\ result[MatchingInDocumentOrder(result)[1]].text
         = html[MatchingInDocumentOrder(html)[1]].text

\* a chapter page was fetched, or its fetch was tried
chapter_fetched == \E k \in 1..Len(urls) : fetch_tried(urls[k])

\* C26: in a run of Pack EPUB, in Manual or Crawl mode, whose output file
\* exists already (it is there and the run did not write it), no chapter page
\* is fetched and nothing is extracted
C26_CheckBeforeChapterFetch ==
  (/\ fn = "Pack EPUB" /\ mode \in {Manual, Crawl}
   /\ exists(out_path(page_meta(start_html_for_meta)), files)
   /\ ~any_write)
  => (~chapter_fetched /\ items = <<>>)

\* the BFS of discover_links has returned
BfsDone == Links /\ pc = "done" /\ phase = "bfs"

\* the admissible links of the pages the BFS crawled
AdmissibleFound == {l \in Range(anchor_log) : admissible(l)}

\* no page is fetched below max_depth, and with max_depth = 0 only the seed
DepthBounded ==
  Links =>
    \A k \in 1..Len(fetch_log) :
      /\ fetch_log[k].depth <= max_depth
      /\ max_depth = 0 => fetch_log[k].url = start_url

\* C27 as stated: no page is fetched at a depth greater than max_depth; with
\* max_depth = 0 only the seed page is fetched and the result is exactly the
\* admissible links found on it
C27_DepthBoundedExactLinks ==
  /\ DepthBounded
  /\ (BfsDone /\ max_depth = 0) => Range(result) = AdmissibleFound

\* C27 as amended: no page is fetched at a depth greater than max_depth; with
\* max_depth = 0 only the seed page is fetched, and the result holds admissible
\* links found on it and no other: all of them but the one equal to start_url
\* as given, each once, as far as max_pages allows
C27_DepthBoundedSeedLinks ==
  /\ DepthBounded
  /\ (BfsDone /\ max_depth = 0) =>
       /\ Range(result) \subseteq AdmissibleFound \ {start_url}
       /\ Cardinality(Range(result)) = Len(result)
       /\ Len(result) = IF Cardinality(AdmissibleFound \ {start_url}) < max_pages
                        THEN Cardinality(AdmissibleFound \ {start_url})
                        ELSE max_pages

\* a crawl of depth 0 whose seed page holds more admissible links than
\* max_pages lets it return
C27_Witness ==
  /\ BfsDone /\ max_depth = 0
  /\ result # <<>>
  /\ fetch_log # <<>> /\ fetch_log[1].ok
  /\ Cardinality(AdmissibleFound \ {start_url}) > max_pages

\* u comes no later than v in the order (path length, then URL string)
in_reading_order(u, v) ==
  \/ StrLen(urlparse(u, "").path) < StrLen(urlparse(v, "").path)
  \/ /\ StrLen(urlparse(u, "").path) = StrLen(urlparse(v, "").path)
     /\ (u = v \/ StrLess(u, v))

\* the links the BFS found, the start URL left out
FoundLinks == Range(found) \ {start_url}

\* C28: the list the BFS returns is sorted by path length, then by URL string;
\* it is cut to max_pages after the sort, so it holds the first links of that
\* order among all links found and never more than max_pages of them
C28_SortedThenCut ==
  BfsDone =>
    /\ \A i, j \in 1..Len(result) : i < j => in_reading_order(result[i], result[j])
    /\ Range(result) \subseteq FoundLinks
    /\ \A u \in FoundLinks \ Range(result) :
         /\ Len(result) = max_pages
         /\ \A i \in 1..Len(result) : in_reading_order(result[i], u)
    /\ Len(result) <= max_pages

\* the crawl found more links than max_pages and returned another link than
\* the first one it found, the one with the shorter path
C28_Witness ==
  /\ BfsDone
  /\ Cardinality(FoundLinks) > max_pages
  /\ result # <<>>
  /\ result # Take(remove_start(found), max_pages)
  /\ \E u \in FoundLinks \ Range(result) :
       StrLen(urlparse(result[1], "").path) < StrLen(urlparse(u, "").path)

(* ----------------------------- termination ---------------------------- *)
\* either crawl is one sequential call: a step of the running loop that can be
\* taken is taken
SpecCrawlFair == Init /\ [][Next]_vars /\ WF_vars(Next)

\* C29: both crawls terminate: whatever the pages of the site link to (cycles,
\* self-links, a page listed many times) and whichever fetches fail, the BFS
\* loop of discover_links and the loop of discover_books_from_index exit and
\* the function returns its list
C29_CrawlsTerminate == <>(pc = "done")

\* the BFS returned with an empty queue after the seed page listed the same
\* page twice and the fetch of that page failed
C29_Witness ==
  /\ BfsDone
  /\ queue = <<>>
  /\ Len(anchor_log) = 2
  /\ anchor_log[1] = anchor_log[2]
  /\ anchor_log[1] # start_url
  /\ \E k \in 1..Len(fetch_log) : fetch_log[k].url = anchor_log[1] /\ ~fetch_log[k].ok

(* -------------------------- derive_author_full ------------------------ *)
\* The page is given by its visible text, soup.get_text(" ", strip=True), one
\* character per element; Unparsable is a page on which the parse raises.

\* most text units a page is made of
MaxUnits == 5

\* the quantifier bound {0,20} of the context pattern
ContextLen == 20

\* characters of the Bengali block ঀ-৿, "x" being any other visible one
Bengali == {"k", "r", "b"}

\* the author token of the title: a Bengali word
AuthorToken == <<"r", "b">>

\* a word longer than most of the context
LongWord == [i \in 1..18 |-> "k"]

TextUnits == {<<"k">>, <<"k", " ">>, <<" ">>, <<"x">>, AuthorToken, LongWord}

RECURSIVE Flatten(_)
Flatten(units) == IF units = <<>> THEN <<>> ELSE Head(units) \o Flatten(Tail(units))

\* get_text(" ", strip=True) starts and ends with no whitespace
VisibleTexts ==
  {t \in {Flatten(us) : us \in StringsUpTo(TextUnits, MaxUnits)} :
     t = <<>> \/ (t[1] \notin WhitespaceChars /\ t[Len(t)] \notin WhitespaceChars)}

Unparsable == <<"Exception">>

\* [ঀ-৿\s]
in_context_class(c) == c \in Bengali \cup WhitespaceChars

\* the characters i .. j-1 of the text all belong to the context class
context_run(text, i, j) == j - 1 <= Len(text) /\ \A n \in i..(j - 1) : in_context_class(text[n])

\* re.escape(author_token) matches at j
token_at(text, token, j) ==
  j + Len(token) - 1 <= Len(text) /\ SubSeq(text, j, j + Len(token) - 1) = token

\* the lengths of context the pattern can take at i before a token
contexts_before(text, token, i) ==
  {k \in 0..ContextLen : context_run(text, i, i + k) /\ token_at(text, token, i + k)}

SetMax(S) == CHOOSE x \in S : \A y \in S : y <= x

SetMin(S) == CHOOSE x \in S : \A y \in S : x <= y

\* the greedy context after the token, from index e on
context_after(text, e) == SetMax({m \in 0..ContextLen : context_run(text, e, e + m)})

\* pat.findall(corpus) from index pos on: the leftmost start, the longest
\* context before a token, the token, the longest context after it; the next
\* match is searched after the end of this one
RECURSIVE findall(_, _, _)
findall(text, token, pos) ==
  LET starts == {i \in pos..Len(text) : contexts_before(text, token, i) # {}}
  IN IF starts = {} THEN <<>>
     ELSE LET i == SetMin(starts)
              e == i + SetMax(contexts_before(text, token, i)) + Len(token)
              last == e + context_after(text, e) - 1
          IN <<SubSeq(text, i, last)>> \o findall(text, token, last + 1)

\* max(matches, key=len): the first of the longest
RECURSIVE longest(_)
longest(matches) ==
  IF Len(matches) = 1 THEN matches[1]
  ELSE LET rest == longest(Tail(matches))
       IN IF Len(rest) > Len(Head(matches)) THEN rest ELSE Head(matches)

\* re.sub(r"\s+", " ", s)
RECURSIVE collapse_whitespace(_)
collapse_whitespace(s) ==
  IF s = <<>> THEN <<>>
  ELSE IF s[1] \in WhitespaceChars
    THEN IF Len(s) > 1 /\ s[2] \in WhitespaceChars THEN collapse_whitespace(Tail(s))
         ELSE <<" ">> \o collapse_whitespace(Tail(s))
  ELSE <<s[1]>> \o collapse_whitespace(Tail(s))

\* s.split(): the maximal runs of characters that are not whitespace
RECURSIVE split_words(_, _)
split_words(s, word) ==
  IF s = <<>> THEN (IF word = <<>> THEN <<>> ELSE <<word>>)
  ELSE IF s[1] \in WhitespaceChars
    THEN (IF word = <<>> THEN <<>> ELSE <<word>>) \o split_words(Tail(s), <<>>)
  ELSE split_words(Tail(s), Append(word, s[1]))

\* " ".join(words)
RECURSIVE join_words(_)
join_words(words) ==
  IF words = <<>> THEN <<>>
  ELSE IF Len(words) = 1 THEN words[1]
  ELSE words[1] \o <<" ">> \o join_words(Tail(words))

\* words[:4], joined again
first_four_words(words) == join_words(SubSeq(words, 1, 4))

derive_author_full(page, token) ==
  IF page = <<>> \/ token = <<>> THEN token
  ELSE IF page = Unparsable THEN token
  ELSE LET matches == findall(page, token, 1)
       IN IF matches = <<>> THEN token
          ELSE LET cand == strip(collapse_whitespace(longest(matches)))
                   words == split_words(cand, <<>>)
                   cut == IF Len(words) > 4 THEN first_four_words(words) ELSE cand
               IN IF cut = <<>> THEN token ELSE cut

AuthorRestIdle == title = "" /\ CrawlIdle /\ CoverIdle /\ RunIdle

AuthorInit ==
  /\ fn = "derive_author_full"
  /\ html \in VisibleTexts \cup {Unparsable}
  /\ author_token \in {<<>>, AuthorToken}
  /\ pc = "call"
  /\ result = <<>>
  /\ AuthorRestIdle

AuthorCall ==
  /\ fn = "derive_author_full" /\ pc = "call"
  /\ result' = derive_author_full(html, author_token)
  /\ pc' = "done"
  /\ UNCHANGED <<fn, html, title, author_token, crawlVars, coverVars, runVars>>

AuthorNext == AuthorCall

SpecAuthor == AuthorInit /\ [][AuthorNext]_vars

\* the token occurs in the visible text of the page
token_occurs == html # Unparsable /\ author_token # <<>> /\ Contains(html, author_token)

\* C30: when the author token occurs in the visible text of the page, the name
\* derive_author_full returns contains the token; when it does not occur, or
\* the page cannot be parsed, the token is returned as it was given
C30_NameContainsToken ==
  (fn = "derive_author_full" /\ pc = "done") =>
    /\ token_occurs => Contains(result, author_token)
    /\ ~token_occurs => result = author_token
====
